---- MODULE Spec2Model ----
(***************************************************************************)
(* A model of the encrypted BigQuery client (ebq).                         *)
(*                                                                         *)
(* Part A models EncryptedBigqueryClient (encrypted_bigquery_client.py):   *)
(* the table the service holds, the master key file, and the operations    *)
(* Load, Query, UpdateTable and CreateTable with every request they send.  *)
(***************************************************************************)
EXTENDS Integers, Sequences, FiniteSets, TLC

VARIABLES
  table,                \* the table held by the service (description parts)
  master_key_filename,  \* the --master_key_filename flag ("" when not given)
  keyfile,              \* content of the master key file, or "absent"
  pc,                   \* position of the running client operation
  op,                   \* the running (or last) operation and its arguments
  master_key,           \* Load's local master_key
  info,                 \* Load's locals from _GetEBQTableInfo
  requests,             \* requests the running (or last) operation has sent
  outcome,              \* how the last operation ended
  encrypted_rows,       \* rows written to the encrypted source file by Load
  cipher_kind,          \* the cipher under study (Parts C and D)
  cipher_key,           \* its key
  message,              \* what has been encrypted (for a sum: what was added)
  n_added,              \* the number of ciphertexts added into `encrypted`
  n_steps,              \* the number of steps that added them
  encrypted,            \* the ciphertext (for a sum: the running Add result)
  decrypted,            \* what Decrypt returned
  stage,                \* how far the cipher has come
  user_schema,          \* the schema of the table loaded and queried (Part E)
  load_table,           \* the id of the table the row is loaded into
  query_table,          \* the id of the table the query runs against
  source_row,           \* the row of the source data file
  stored_row,           \* the row written to the encrypted data file
  clause,               \* the clause of the query under rewriting
  argument,             \* its argument: a postfix expression
  extra_args,           \* the other attributes the clause is made with
  original_name,        \* the original_name attribute of each token class
  rewritten,            \* what rewriting the clause returned or raised
  progress,             \* how far the load and the rewriting have come
  column_names,         \* the columns of the table to be printed (Part F)
  table_rows,           \* its rows
  order_by,             \* the argument of the ORDER BY clause
  sorted_table,         \* what SortTable returned or raised
  prg_seed,             \* PRG.__seed (Part G)
  prg_count,            \* PRG.__count
  prg_sizes,            \* the sizes GetNextBytes has been called with
  prg_output,           \* what the calls returned, one after the other
  schema_file,          \* the content of the extended schema file (Part H)
  read_schema,          \* what ReadSchemaFile returned or raised
  new_schema,           \* what RewriteSchema returned or raised
  schema_step,          \* how far the schema has come
  eval_stack,           \* the postfix expression given to Evaluate (Part I)
  eval_result,          \* what Evaluate returned or raised
  server_rows,          \* the rows the query has at the server (Part J)
  limit_argument,       \* the argument of the LIMIT clause
  fetched,              \* the rows the server has returned
  key_file,             \* the master key file of two clients (Part K)
  key_client,           \* each client's position in ReadMasterKeyFile and its locals
  query_manifest,       \* QueryManifest.manifest (Part L)
  primary_names,        \* the column names GetColumnAliasForName was called for
  sum_argument,         \* the postfix of a SUM or AVG of SELECT (Part M)
  sum_rows,             \* the rows of the table it is taken over
  sum_residual,         \* what _CollapseAggregations has made of it
  sum_result            \* the value of the residual expression

clientVars == <<table, master_key_filename, keyfile, pc, op, master_key, info,
                requests, outcome, encrypted_rows>>

cryptoVars == <<cipher_kind, cipher_key, message, n_added, n_steps, encrypted,
                decrypted, stage>>

queryVars == <<user_schema, load_table, query_table, source_row, stored_row,
               clause, argument, extra_args, original_name, rewritten,
               progress>>

sortVars == <<column_names, table_rows, order_by, sorted_table>>

prgVars == <<prg_seed, prg_count, prg_sizes, prg_output>>

schemaVars == <<schema_file, read_schema, new_schema, schema_step>>

evalVars == <<eval_stack, eval_result>>

printVars == <<server_rows, limit_argument, fetched>>

keyVars == <<key_file, key_client>>

manifestVars == <<query_manifest, primary_names>>

sumVars == <<sum_argument, sum_rows, sum_residual, sum_result>>

toolVars == <<evalVars, printVars, keyVars, manifestVars, sumVars>>

libraryVars == <<sortVars, prgVars, schemaVars, toolVars>>

vars == <<clientVars, cryptoVars, queryVars, libraryVars>>

\* The part of the state a client operation leaves alone.
ClientOnly == UNCHANGED <<cryptoVars, queryVars, libraryVars>>

\* The client is not running: the state of Part A while a cipher is studied.
ClientIdle ==
  /\ table = [exists |-> FALSE]
  /\ master_key_filename = ""
  /\ keyfile = "absent"
  /\ pc = "off"
  /\ op = "none"
  /\ master_key = ""
  /\ info = "none"
  /\ requests = <<>>
  /\ outcome = "none"
  /\ encrypted_rows = 0

\* No cipher is studied: the state of Parts C and D while the client runs.
CryptoIdle ==
  /\ cipher_kind = "none"
  /\ cipher_key = <<>>
  /\ message = <<>>
  /\ n_added = <<>>
  /\ n_steps = 0
  /\ encrypted = <<>>
  /\ decrypted = <<>>
  /\ stage = "off"

\* Nothing is loaded or rewritten: the state of Part E elsewhere.
QueryIdle ==
  /\ user_schema = <<>>
  /\ load_table = <<>>
  /\ query_table = <<>>
  /\ source_row = <<>>
  /\ stored_row = <<>>
  /\ clause = "none"
  /\ argument = <<>>
  /\ extra_args = <<>>
  /\ original_name = <<>>
  /\ rewritten = <<>>
  /\ progress = "off"

\* No table is sorted: the state of Part F elsewhere.
SortIdle ==
  /\ column_names = <<>>
  /\ table_rows = <<>>
  /\ order_by = <<>>
  /\ sorted_table = <<>>

\* No generator is made: the state of Part G elsewhere.
PrgIdle ==
  /\ prg_seed = <<>>
  /\ prg_count = 0
  /\ prg_sizes = <<>>
  /\ prg_output = <<>>

\* No schema file is read: the state of Part H elsewhere.
SchemaIdle ==
  /\ schema_file = <<>>
  /\ read_schema = <<>>
  /\ new_schema = <<>>
  /\ schema_step = "off"

\* None of the library parts F, G, H is exercised.
\* No expression is evaluated: the state of Part I elsewhere.
EvalIdle ==
  /\ eval_stack = <<>>
  /\ eval_result = <<>>

\* No query is run: the state of Part J elsewhere.
PrintIdle ==
  /\ server_rows = <<>>
  /\ limit_argument = <<>>
  /\ fetched = <<>>

\* No client reads the key file: the state of Part K elsewhere.
KeyIdle ==
  /\ key_file = <<>>
  /\ key_client = <<>>

\* No manifest is made: the state of Part L elsewhere.
ManifestIdle ==
  /\ query_manifest = <<>>
  /\ primary_names = {}

\* No sum is collapsed: the state of Part M elsewhere.
SumIdle ==
  /\ sum_argument = <<>>
  /\ sum_rows = <<>>
  /\ sum_residual = <<>>
  /\ sum_result = <<>>

ToolIdle == EvalIdle /\ PrintIdle /\ KeyIdle /\ ManifestIdle /\ SumIdle

LibraryIdle == SortIdle /\ PrgIdle /\ SchemaIdle /\ ToolIdle

(***************************************************************************)
(* Part A.  The client.                                                    *)
(***************************************************************************)

\* Bound: the largest number of rows of a source file handed to Load.
MaxRows == 2

Keys == {"key1", "key2"}
Schemas == {"schema_a", "schema_b"}
\* A schema argument that is a text schema or a list of URIs, not a file.
TextSchemas == {"name:string", "a.json,b.json"}
SourceFormats == {"CSV", "NEWLINE_DELIMITED_JSON", "", "DATASTORE_BACKUP"}

EBQ_TABLE_VERSION == "1.0"
Versions == {EBQ_TABLE_VERSION, "0.9"}

\* base64.b64encode(hashlib.sha1(master_key).digest()): an injective tag.
HashedKey(key) == <<"b64sha1", key>>

\* base64(ProbabilisticCipher(key).Encrypt(zlib.compress(data))): the blob
\* remembers the key it was made with and the data it holds.
EncryptSchema(key, data) == [key |-> key, data |-> data]

\* zlib.decompress(cipher.Decrypt(base64.b64decode(blob), raw=True)).
DecryptSchema(key, blob) == IF blob.key = key THEN blob.data ELSE "garbage"

\* load_lib.RewriteSchema: the schema of the encrypted table.
RewriteSchema(schema) == <<"rewritten", schema>>

NoTable == [exists |-> FALSE, hashed_key |-> HashedKey(""), version |-> "",
            schema |-> EncryptSchema("", ""), columns |-> RewriteSchema(""),
            description |-> ""]

\* The table CreateTable makes: util.ConstructTableDescription of the
\* description, the hash of the master key, the version, the encrypted schema.
NewTable(key, schema, version, description) ==
  [exists |-> TRUE, hashed_key |-> HashedKey(key), version |-> version,
   schema |-> EncryptSchema(key, schema), columns |-> RewriteSchema(schema),
   description |-> description]

NoOp == [name |-> "none", schema |-> "", description |-> "",
         source_format |-> "", nrows |-> 0, on_table |-> FALSE]
NoInfo == [hashed_key |-> HashedKey(""), version |-> "",
           schema |-> EncryptSchema("", "")]

Request(method, response) == [method |-> method, response |-> response]

\* The comparisons Load, Query and UpdateTable make.
KeyHashMatches(hashed_master_key, hashed_table_key) ==
  hashed_master_key = hashed_table_key
VersionMatches(table_version) == table_version = EBQ_TABLE_VERSION
\* A comparison that accepts every well-formed stored schema.
SchemaMatches_AnySchema(table_schema, orig_schema) == table_schema \in Schemas
SchemaMatches(table_schema, orig_schema) == table_schema = orig_schema

ClientInit ==
  /\ table \in {NoTable} \cup
       {NewTable(k, s, v, "") : k \in Keys, s \in Schemas, v \in Versions}
  /\ master_key_filename \in {"", "ebq.key"}
  /\ keyfile \in Keys \cup {"absent"}
  /\ pc = "idle"
  /\ op = NoOp
  /\ master_key = ""
  /\ info = NoInfo
  /\ requests = <<>>
  /\ outcome = "none"
  /\ encrypted_rows = 0

Raise(error) ==
  /\ outcome' = error
  /\ pc' = "idle"

\* Load, lines 194-195: _CheckKeyfileFlag and _CheckSchemaFile.
LoadBegin ==
  /\ pc = "idle"
  /\ ClientOnly
  /\ \E schema \in Schemas \cup TextSchemas, fmt \in SourceFormats,
        n \in 1..MaxRows :
       /\ op' = [name |-> "Load", schema |-> schema, description |-> "",
                 source_format |-> fmt, nrows |-> n, on_table |-> TRUE]
       /\ IF master_key_filename = "" \/ schema \in TextSchemas
            THEN Raise("UsageError")
            ELSE outcome' = "none" /\ pc' = "load_create"
  /\ requests' = <<>>
  /\ encrypted_rows' = 0
  /\ master_key' = ""
  /\ info' = NoInfo
  /\ UNCHANGED <<table, master_key_filename, keyfile>>

\* Load, lines 204-207: self.CreateTable(destination_table, schema=schema),
\* which reads (or creates) the master key and sends tables.insert; the
\* service answers an existing table with a duplicate error, which Load drops.
LoadCreateTable ==
  /\ pc = "load_create"
  /\ ClientOnly
  /\ \E k \in Keys :
       /\ keyfile # "absent" => k = keyfile
       /\ keyfile' = k
       /\ IF table.exists
            THEN /\ table' = table
                 /\ requests' = Append(requests,
                                       Request("tables.insert", "duplicate"))
            ELSE /\ table' = NewTable(k, op.schema, EBQ_TABLE_VERSION, "")
                 /\ requests' = Append(requests,
                                       Request("tables.insert", "created"))
  /\ pc' = "load_read_info"
  /\ UNCHANGED <<master_key_filename, op, master_key, info, outcome,
                 encrypted_rows>>

\* Load, lines 218-223: ReadMasterKeyFile, _GetTableCreationTime and
\* _GetEBQTableInfo (one tables.get each).
LoadReadInfo ==
  /\ pc = "load_read_info"
  /\ ClientOnly
  /\ master_key' = keyfile
  /\ info' = [hashed_key |-> table.hashed_key, version |-> table.version,
              schema |-> table.schema]
  /\ requests' = requests \o <<Request("tables.get", "ok"),
                               Request("tables.get", "ok")>>
  /\ pc' = "load_check_key"
  /\ UNCHANGED <<table, master_key_filename, keyfile, op, outcome,
                 encrypted_rows>>

\* Load, lines 224-229.
LoadCheckKey ==
  /\ pc = "load_check_key"
  /\ ClientOnly
  /\ IF KeyHashMatches(HashedKey(master_key), info.hashed_key)
       THEN pc' = "load_check_version" /\ UNCHANGED outcome
       ELSE Raise("BigqueryAccessDeniedError")
  /\ UNCHANGED <<table, master_key_filename, keyfile, op, master_key, info,
                 requests, encrypted_rows>>

\* Load, lines 230-232.
LoadCheckVersion ==
  /\ pc = "load_check_version"
  /\ ClientOnly
  /\ IF VersionMatches(info.version)
       THEN pc' = "load_check_schema" /\ UNCHANGED outcome
       ELSE Raise("BigqueryNotFoundError")
  /\ UNCHANGED <<table, master_key_filename, keyfile, op, master_key, info,
                 requests, encrypted_rows>>

\* Load, lines 234-241: the stored schema is decrypted, decompressed and
\* parsed as JSON (a ValueError when it is not JSON), then compared.
LoadCheckSchema ==
  /\ pc = "load_check_schema"
  /\ ClientOnly
  /\ LET table_schema == DecryptSchema(master_key, info.schema)
     IN  IF table_schema \notin Schemas
           THEN Raise("ValueError")
           ELSE IF SchemaMatches(table_schema, op.schema)
                  THEN pc' = "load_convert" /\ UNCHANGED outcome
                  ELSE Raise("BigqueryAccessDeniedError")
  /\ UNCHANGED <<table, master_key_filename, keyfile, op, master_key, info,
                 requests, encrypted_rows>>

\* Load, lines 242-251: ConvertJsonDataFile or ConvertCsvDataFile encrypts
\* every row of the source into the new source file.
LoadConvert ==
  /\ pc = "load_convert"
  /\ ClientOnly
  /\ IF op.source_format \in {"NEWLINE_DELIMITED_JSON", "CSV", ""}
       THEN /\ encrypted_rows' = op.nrows
            /\ pc' = "load_submit"
            /\ UNCHANGED outcome
       ELSE /\ Raise("UsageError")
            /\ UNCHANGED encrypted_rows
  /\ UNCHANGED <<table, master_key_filename, keyfile, op, master_key, info,
                 requests>>

\* Load, lines 252-258: BigqueryClient.Load submits the load job.
LoadSubmit ==
  /\ pc = "load_submit"
  /\ ClientOnly
  /\ requests' = Append(requests, Request("jobs.insert.load", "ok"))
  /\ outcome' = "ok"
  /\ pc' = "idle"
  /\ UNCHANGED <<table, master_key_filename, keyfile, op, master_key, info,
                 encrypted_rows>>

\* The requests Query has sent when it ends with `result`, lines 270-306.
QueryRun(parse_ok, has_from, rewrite_ok) ==
  LET get == Request("tables.get", "ok")
      missing == Request("tables.get", "notFound")
  IN  IF master_key_filename = "" THEN [outcome |-> "UsageError", sent |-> <<>>]
      ELSE IF keyfile = "absent"
        THEN [outcome |-> "BigqueryNotFoundError", sent |-> <<>>]
      ELSE IF ~parse_ok
        THEN [outcome |-> "BigqueryInvalidQueryError", sent |-> <<>>]
      ELSE IF has_from /\ ~table.exists
        THEN [outcome |-> "BigqueryNotFoundError", sent |-> <<missing>>]
      ELSE IF has_from /\ ~KeyHashMatches(HashedKey(keyfile), table.hashed_key)
        THEN [outcome |-> "BigqueryAccessDeniedError", sent |-> <<get, get>>]
      ELSE IF has_from /\ ~VersionMatches(table.version)
        THEN [outcome |-> "BigqueryNotFoundError", sent |-> <<get, get>>]
      ELSE IF has_from /\ DecryptSchema(keyfile, table.schema) \notin Schemas
        THEN [outcome |-> "ValueError", sent |-> <<get, get>>]
      ELSE IF ~rewrite_ok
        THEN [outcome |-> "BigqueryInvalidQueryError",
              sent |-> IF has_from THEN <<get, get>> ELSE <<>>]
      ELSE [outcome |-> "ok",
            sent |-> (IF has_from THEN <<get, get>> ELSE <<>>)
                       \o <<Request("jobs.insert.query", "ok")>>]

\* Query, lines 260-312.
Query ==
  /\ pc = "idle"
  /\ ClientOnly
  /\ \E parse_ok \in BOOLEAN, has_from \in BOOLEAN, rewrite_ok \in BOOLEAN :
       LET run == QueryRun(parse_ok, has_from, rewrite_ok)
       IN  /\ op' = [NoOp EXCEPT !.name = "Query", !.on_table = has_from]
           /\ outcome' = run.outcome
           /\ requests' = run.sent
  /\ encrypted_rows' = 0
  /\ UNCHANGED <<table, master_key_filename, keyfile, pc, master_key, info>>

\* UpdateTable, lines 314-351.  schema and description are "" when not given.
UpdateTableRun(schema, description) ==
  LET get == Request("tables.get", "ok")
      check == schema # "" /\ description # ""
      sent == IF description # "" THEN <<get>> ELSE <<>>
      \* line 340: real_schema = str.encode('utf-8') is the string 'utf-8'.
      table_schema == IF check THEN EncryptSchema(keyfile, "utf-8")
                      ELSE table.schema
  IN  IF schema # "" /\ master_key_filename = ""
        THEN [outcome |-> "UsageError", sent |-> <<>>, table |-> table]
      ELSE IF description # "" /\ ~table.exists
        THEN [outcome |-> "BigqueryNotFoundError",
              sent |-> <<Request("tables.get", "notFound")>>, table |-> table]
      ELSE IF check /\ keyfile = "absent"
        THEN [outcome |-> "BigqueryNotFoundError", sent |-> sent,
              table |-> table]
      ELSE IF check /\ ~KeyHashMatches(HashedKey(keyfile), table.hashed_key)
        THEN [outcome |-> "BigqueryAccessDeniedError", sent |-> sent,
              table |-> table]
      ELSE IF ~table.exists
        THEN [outcome |-> "BigqueryNotFoundError",
              sent |-> sent \o <<Request("tables.update", "notFound")>>,
              table |-> table]
      ELSE [outcome |-> "ok",
            sent |-> sent \o <<Request("tables.update", "ok")>>,
            table |-> [table EXCEPT
              !.columns = IF schema # "" THEN RewriteSchema(schema) ELSE @,
              !.description = IF description # "" THEN description ELSE @,
              !.schema = table_schema]]

UpdateTable ==
  /\ pc = "idle"
  /\ ClientOnly
  /\ \E schema \in Schemas \cup {""}, description \in {"", "new text"} :
       LET run == UpdateTableRun(schema, description)
       IN  /\ op' = [NoOp EXCEPT !.name = "UpdateTable", !.schema = schema,
                                 !.description = description,
                                 !.on_table = TRUE]
           /\ outcome' = run.outcome
           /\ requests' = run.sent
           /\ table' = run.table
  /\ encrypted_rows' = 0
  /\ UNCHANGED <<master_key_filename, keyfile, pc, master_key, info>>

\* CreateTable, lines 353-391, called on its own.
CreateTable ==
  /\ pc = "idle"
  /\ ClientOnly
  /\ \E schema \in Schemas \cup {""}, ignore_existing \in BOOLEAN,
        k \in Keys :
       /\ op' = [NoOp EXCEPT !.name = "CreateTable", !.schema = schema,
                             !.on_table = TRUE]
       /\ keyfile # "absent" => k = keyfile
       /\ IF schema = ""
            THEN /\ outcome' = "BigqueryNotFoundError"
                 /\ requests' = <<>>
                 /\ UNCHANGED <<table, keyfile>>
          ELSE IF master_key_filename = ""
            THEN /\ outcome' = "UsageError"
                 /\ requests' = <<>>
                 /\ UNCHANGED <<table, keyfile>>
          ELSE IF table.exists
            THEN /\ outcome' = IF ignore_existing THEN "ok"
                               ELSE "BigqueryDuplicateError"
                 /\ requests' = <<Request("tables.insert", "duplicate")>>
                 /\ keyfile' = k
                 /\ UNCHANGED table
          ELSE /\ outcome' = "ok"
               /\ requests' = <<Request("tables.insert", "created")>>
               /\ keyfile' = k
               /\ table' = NewTable(k, schema, EBQ_TABLE_VERSION, "")
  /\ encrypted_rows' = 0
  /\ UNCHANGED <<master_key_filename, pc, master_key, info>>

Init == ClientInit /\ CryptoIdle /\ QueryIdle /\ LibraryIdle

Next ==
  \/ LoadBegin
  \/ LoadCreateTable
  \/ LoadReadInfo
  \/ LoadCheckKey
  \/ LoadCheckVersion
  \/ LoadCheckSchema
  \/ LoadConvert
  \/ LoadSubmit
  \/ Query
  \/ UpdateTable
  \/ CreateTable

Spec == Init /\ [][Next]_vars

Sent(method) == \E i \in 1..Len(requests) : requests[i].method = method

\* The requests that query or modify a table.
TouchesTable(method) ==
  method \in {"jobs.insert.load", "jobs.insert.query", "tables.update"}

\* The hash of the key in the key file differs from the table's stored hash.
KeyMismatch ==
  /\ table.exists
  /\ master_key_filename # ""
  /\ keyfile \in Keys
  /\ HashedKey(keyfile) # table.hashed_key

\* C1: an operation on an existing encrypted table (Load, Query, UpdateTable
\* with any combination of schema and description) that ran with a master key
\* whose hash differs from the hash stored in the table description has
\* failed, and has sent no request that queries or modifies the table.
C1_KeyMismatchFailsBeforeAnyRequest ==
  (/\ pc = "idle"
   /\ op.name \in {"Load", "Query", "UpdateTable"}
   /\ op.on_table
   /\ KeyMismatch)
  => /\ outcome # "ok"
     /\ \A i \in 1..Len(requests) : ~TouchesTable(requests[i].method)

\* The case of C1 the code does handle: Load and Query stop at the key check.
C1_MismatchedLoadOrQueryStopped ==
  /\ pc = "idle"
  /\ op.name \in {"Load", "Query"}
  /\ op.on_table
  /\ KeyMismatch
  /\ outcome = "BigqueryAccessDeniedError"
  /\ Sent("tables.get")

\* C2: in Load, a row has been encrypted or the load job has been submitted
\* (or Load stands before either step) only if the three checks passed first:
\* the hash of the loaded key equals the stored hash, the stored version is
\* the client's version, and the schema decrypted from the description equals
\* the schema the user gave.  A Load with a failing check has raised before.
C2_LoadChecksPrecedeEncryptAndSubmit ==
  (/\ op.name = "Load"
   /\ \/ pc \in {"load_convert", "load_submit"}
      \/ encrypted_rows > 0
      \/ Sent("jobs.insert.load"))
  => /\ HashedKey(master_key) = info.hashed_key
     /\ info.version = EBQ_TABLE_VERSION
     /\ DecryptSchema(master_key, info.schema) = op.schema

\* A Load on a table that existed before (its tables.insert was answered
\* with a duplicate error) has encrypted its rows and submitted the job.
C2_LoadOnExistingTableSubmitted ==
  /\ pc = "idle"
  /\ op.name = "Load"
  /\ outcome = "ok"
  /\ requests[1] = Request("tables.insert", "duplicate")
  /\ encrypted_rows = op.nrows
  /\ Sent("jobs.insert.load")

(***************************************************************************)
(* Part B.  Arbitrary-precision integers.                                  *)
(*                                                                         *)
(* Python's long integers are modelled as little-endian sequences of limbs *)
(* of LimbBits bits without leading zero limbs (0 is the empty sequence),  *)
(* so that the 64, 96, 895 and 1024 bit layouts of paillier.py keep their  *)
(* real widths.                                                            *)
(***************************************************************************)

\* Width of a limb of the representation (any width from 8 to 30 works).
LimbBits == 16
Base == 2^LimbBits

Max2(a, b) == IF a >= b THEN a ELSE b
Min2(a, b) == IF a <= b THEN a ELSE b

Limb(x, i) == IF i >= 1 /\ i <= Len(x) THEN x[i] ELSE 0

RECURSIVE Norm(_)
Norm(x) ==
  IF Len(x) = 0 THEN <<>>
  ELSE IF x[Len(x)] # 0 THEN x
  ELSE Norm(SubSeq(x, 1, Len(x) - 1))

\* The long with the value of the natural number n.
RECURSIVE Big(_)
Big(n) == IF n = 0 THEN <<>> ELSE <<n % Base>> \o Big(n \div Base)

RECURSIVE AddFrom(_, _, _, _)
AddFrom(x, y, i, carry) ==
  IF i > Len(x) /\ i > Len(y)
    THEN IF carry = 0 THEN <<>> ELSE <<carry>>
    ELSE LET s == Limb(x, i) + Limb(y, i) + carry
         IN  <<s % Base>> \o AddFrom(x, y, i + 1, s \div Base)

\* x + y
BigAdd(x, y) == AddFrom(x, y, 1, 0)

RECURSIVE SubFrom(_, _, _, _)
SubFrom(x, y, i, borrow) ==
  IF i > Len(x) THEN <<>>
  ELSE LET d == x[i] - Limb(y, i) - borrow
       IN  IF d < 0 THEN <<d + Base>> \o SubFrom(x, y, i + 1, 1)
           ELSE <<d>> \o SubFrom(x, y, i + 1, 0)

\* x - y, for x >= y
BigSub(x, y) == Norm(SubFrom(x, y, 1, 0))

RECURSIVE CmpFrom(_, _, _)
CmpFrom(x, y, i) ==
  IF i = 0 THEN 0
  ELSE IF x[i] > y[i] THEN 1
  ELSE IF x[i] < y[i] THEN -1
  ELSE CmpFrom(x, y, i - 1)

\* cmp(x, y): -1, 0 or 1
BigCmp(x, y) ==
  IF Len(x) > Len(y) THEN 1
  ELSE IF Len(x) < Len(y) THEN -1
  ELSE CmpFrom(x, y, Len(x))

BigLess(x, y) == BigCmp(x, y) = -1

\* x << s
ShiftLeft(x, s) ==
  IF Len(x) = 0 THEN <<>>
  ELSE LET q == s \div LimbBits
           r == s % LimbBits
       IN  Norm([i \in 1..(Len(x) + q + 1) |->
                  (Limb(x, i - q) % 2^(LimbBits - r)) * 2^r
                  + Limb(x, i - q - 1) \div 2^(LimbBits - r)])

\* x >> s
ShiftRight(x, s) ==
  LET q == s \div LimbBits
      r == s % LimbBits
  IN  IF Len(x) <= q THEN <<>>
      ELSE Norm([i \in 1..(Len(x) - q) |->
                  Limb(x, i + q) \div 2^r
                  + (Limb(x, i + q + 1) % 2^r) * 2^(LimbBits - r)])

\* x & (2^w - 1)
MaskLow(x, w) ==
  LET q == w \div LimbBits
      r == w % LimbBits
  IN  Norm([i \in 1..Min2(Len(x), q + 1) |->
             IF i <= q THEN x[i] ELSE x[i] % 2^r])

\* x ^ (2^w - 1)
XorOnes(x, w) ==
  LET q == w \div LimbBits
      r == w % LimbBits
  IN  Norm([i \in 1..Max2(Len(x), q + 1) |->
             IF i <= q THEN Base - 1 - Limb(x, i)
             ELSE IF i = q + 1
               THEN (Limb(x, i) \div 2^r) * 2^r + (2^r - 1 - (Limb(x, i) % 2^r))
             ELSE Limb(x, i)])

RECURSIVE LimbLength(_)
LimbLength(n) == IF n = 0 THEN 0 ELSE 1 + LimbLength(n \div 2)

\* len(bin(x)) - 2 for x > 0, and 0 for x = 0
BitLength(x) ==
  IF Len(x) = 0 THEN 0
  ELSE (Len(x) - 1) * LimbBits + LimbLength(x[Len(x)])

BigZero == <<>>
BigOne == Big(1)
\* 2^k
Pow2(k) == ShiftLeft(BigOne, k)
\* long(w * '1', 2)
Ones(w) == XorOnes(BigZero, w)
\* bit i of x (the least significant bit is bit 0)
Bit(x, i) == (Limb(x, i \div LimbBits + 1) \div 2^(i % LimbBits)) % 2

\* Python ints that may be negative: a sign and a magnitude.
Signed(neg, mag) == [neg |-> neg /\ Len(mag) > 0, mag |-> mag]

\* x + y for signed x and y
SignedAdd(x, y) ==
  IF x.neg = y.neg THEN Signed(x.neg, BigAdd(x.mag, y.mag))
  ELSE IF BigLess(x.mag, y.mag) THEN Signed(y.neg, BigSub(y.mag, x.mag))
  ELSE Signed(x.neg, BigSub(x.mag, y.mag))

\* x < y for signed x and y
SignedLess(x, y) ==
  IF x.neg # y.neg THEN x.neg
  ELSE IF x.neg THEN BigLess(y.mag, x.mag)
  ELSE BigLess(x.mag, y.mag)

(***************************************************************************)
(* Part C.  paillier.py: the int64 and float payloads of a Paillier        *)
(* ciphertext.                                                             *)
(*                                                                         *)
(* The modular exponentiations of Encrypt, Decrypt and Add are not         *)
(* modelled: a ciphertext is the payload it decrypts to, Add adds the      *)
(* payloads, and Decrypt reduces the payload modulo 2^(N_LENGTH-1), the    *)
(* least value the N_LENGTH-bit modulus n can take (so a payload that      *)
(* stays below it is returned unchanged, as with every n the key           *)
(* generation can produce).                                                *)
(***************************************************************************)

N_LENGTH == 1024
MAX_INT64 == Signed(FALSE, BigSub(Pow2(63), BigOne))
MIN_INT64 == Signed(TRUE, Pow2(63))
FLOAT_MSB == N_LENGTH - 1
MAX_ADDS == 32
FLOAT_NAN_LSB == FLOAT_MSB - MAX_ADDS
FLOAT_PLUSINF_LSB == FLOAT_NAN_LSB - MAX_ADDS
FLOAT_MINUSINF_LSB == FLOAT_PLUSINF_LSB - MAX_ADDS
FLOAT_CARRYOVER_LSB == FLOAT_MINUSINF_LSB - MAX_ADDS
FLOAT_SIGN_HIGH_LSB == FLOAT_CARRYOVER_LSB - MAX_ADDS
FLOAT_SIGN_LOW_LSB == FLOAT_SIGN_HIGH_LSB - MAX_ADDS
EXPLICIT_MANTISSA_BITS == 52
MANTISSA_BITS == 53
EXPONENT_BITS == 11
EXPONENT_BIAS == 2^(EXPONENT_BITS - 1) - 1
FLOAT_MANTISSA_LSB == FLOAT_SIGN_LOW_LSB - MANTISSA_BITS
FLOAT_MANTISSA_ZERO == FLOAT_MANTISSA_LSB \div 2

\* The result of a call: the value returned, or the error raised.
Returned(value) == [error |-> "none", value |-> value]
Raised(error) == [error |-> error, value |-> BigZero]

\* Paillier.Encrypt, Paillier.Decrypt and Paillier.Add.
PaillierEncrypt(plaintext) == [payload |-> plaintext]
PaillierDecrypt(ciphertext) == MaskLow(ciphertext.payload, N_LENGTH - 1)
Add(ciphertext1, ciphertext2) ==
  [payload |-> BigAdd(ciphertext1.payload, ciphertext2.payload)]

\* The two's complement of a negative number taken in 64 bits only.
Extend64bitTo96bitTwosComplement_In64Bits(num) ==
  IF ~num.neg THEN num.mag
  ELSE MaskLow(BigAdd(XorOnes(num.mag, 64), BigOne), 64)

\* Paillier._Extend64bitTo96bitTwosComplement
Extend64bitTo96bitTwosComplement(num) ==
  IF ~num.neg THEN num.mag
  ELSE BigAdd(XorOnes(num.mag, 96), BigOne)

\* Paillier.EncryptInt64
EncryptInt64(plaintext) ==
  IF SignedLess(plaintext, MIN_INT64) \/ SignedLess(MAX_INT64, plaintext)
    THEN [error |-> "ValueError", value |-> PaillierEncrypt(BigZero)]
    ELSE Returned(PaillierEncrypt(Extend64bitTo96bitTwosComplement(plaintext)))

\* Paillier._Unwrap96bitTo64bit; the mask 0xffffffff8000000000000000 keeps
\* bits 63..95, which the shift by 63 then moves down.
Unwrap96bitTo64bit(plaintext) ==
  LET valuebits1to63 == MaskLow(plaintext, 63)
      signbits64to96 == MaskLow(ShiftRight(plaintext, 63), 33)
      positive_96bit_value == BigAdd(XorOnes(plaintext, 96), BigOne)
      positive_64bit_value == MaskLow(positive_96bit_value, 64)
  IN  IF ~(signbits64to96 = BigZero \/ signbits64to96 = Ones(33))
        THEN [error |-> "OverflowError", value |-> Signed(FALSE, BigZero)]
      ELSE IF signbits64to96 = BigZero
        THEN Returned(Signed(FALSE, valuebits1to63))
      ELSE Returned(Signed(TRUE, positive_64bit_value))

\* Paillier.DecryptInt64
DecryptInt64(ciphertext) == Unwrap96bitTo64bit(PaillierDecrypt(ciphertext))

\* A double is its 64 bits, as struct.pack('d', x) lays them out: the sign,
\* the biased exponent and the 52 explicit mantissa bits.
Double(sign, exponent, fraction) ==
  BigAdd(ShiftLeft(Big(2^EXPONENT_BITS * sign + exponent + EXPONENT_BIAS),
                   EXPLICIT_MANTISSA_BITS),
         fraction)
NAN == Double(0, EXPONENT_BIAS + 1, Pow2(EXPLICIT_MANTISSA_BITS - 1))
INF_PLUS == Double(0, EXPONENT_BIAS + 1, BigZero)
INF_MINUS == Double(1, EXPONENT_BIAS + 1, BigZero)
ZERO == BigZero

\* The fields of a double.
FractionOf(x) == MaskLow(x, EXPLICIT_MANTISSA_BITS)
ExponentFieldOf(x) ==
  LET e == MaskLow(ShiftRight(x, EXPLICIT_MANTISSA_BITS), EXPONENT_BITS)
  IN  Limb(e, 1) + Base * Limb(e, 2)
SignOf(x) == Bit(x, EXPLICIT_MANTISSA_BITS + EXPONENT_BITS)

\* paillier.IsNan, IsInfPlus, IsInfMinus
IsNan(x) ==
  ExponentFieldOf(x) = 2 * EXPONENT_BIAS + 1 /\ FractionOf(x) # BigZero
IsInfPlus(x) == x = INF_PLUS
IsInfMinus(x) == x = INF_MINUS

\* Paillier.EncryptFloat
EncryptFloat(plaintext) ==
  LET input_as_long == plaintext
      mantissa == BigAdd(FractionOf(input_as_long),
                         Pow2(EXPLICIT_MANTISSA_BITS))
      exponent == ExponentFieldOf(input_as_long) - EXPONENT_BIAS
      sign == SignOf(input_as_long)
      shifted == ShiftRight(ShiftLeft(mantissa, FLOAT_MANTISSA_LSB),
                            FLOAT_MANTISSA_ZERO - exponent)
  IN  IF IsNan(plaintext) THEN Returned(PaillierEncrypt(Pow2(FLOAT_NAN_LSB)))
      ELSE IF IsInfPlus(plaintext)
        THEN Returned(PaillierEncrypt(Pow2(FLOAT_PLUSINF_LSB)))
      ELSE IF IsInfMinus(plaintext)
        THEN Returned(PaillierEncrypt(Pow2(FLOAT_MINUSINF_LSB)))
      ELSE IF exponent = 0 /\ mantissa = BigZero
        THEN Returned(PaillierEncrypt(BigZero))
      ELSE IF exponent > FLOAT_MANTISSA_ZERO
        THEN [error |-> "ValueError", value |-> PaillierEncrypt(BigZero)]
      ELSE IF exponent < -FLOAT_MANTISSA_ZERO - EXPLICIT_MANTISSA_BITS
        THEN Returned(PaillierEncrypt(BigZero))
      ELSE IF sign = 1
        THEN Returned(PaillierEncrypt(
               BigAdd(XorOnes(shifted, FLOAT_CARRYOVER_LSB), BigOne)))
      ELSE Returned(PaillierEncrypt(shifted))

\* DecryptFloat, lines 474-487 and 500-514: the double made of the first 53
\* bits of a positive value, with the given sign bit.
PackFloat(value, sign) ==
  LET size == BitLength(value)
      new_mantissa ==
        IF size >= MANTISSA_BITS
          THEN MaskLow(ShiftRight(value, size - MANTISSA_BITS),
                       EXPLICIT_MANTISSA_BITS)
          ELSE MaskLow(ShiftLeft(value, MANTISSA_BITS - size),
                       EXPLICIT_MANTISSA_BITS)
      new_exponent == (size - MANTISSA_BITS) - FLOAT_MANTISSA_ZERO
                      + EXPONENT_BIAS
  IN  BigAdd(BigAdd(ShiftLeft(Big(new_exponent), EXPLICIT_MANTISSA_BITS),
                    new_mantissa),
             ShiftLeft(Big(sign), EXPLICIT_MANTISSA_BITS + EXPONENT_BITS))

\* NaN for any operand that is no finite number.
IsNanResult_AnyInfinity(nan_32, plus_inf32, minus_inf32) ==
  \/ nan_32 # BigZero
  \/ plus_inf32 # BigZero \/ minus_inf32 # BigZero

\* DecryptFloat, lines 453-457: when the result is NaN.
IsNanResult(nan_32, plus_inf32, minus_inf32) ==
  \/ nan_32 # BigZero
  \/ plus_inf32 # BigZero /\ minus_inf32 # BigZero

\* Paillier.DecryptFloat
DecryptFloat(ciphertext) ==
  LET original_plaintext == PaillierDecrypt(ciphertext)
      mantissa_and_exponent == MaskLow(original_plaintext, FLOAT_SIGN_LOW_LSB)
      lanes == ShiftRight(original_plaintext, FLOAT_SIGN_LOW_LSB)
      sign_low32 == MaskLow(lanes, MAX_ADDS)
      sign_high32 == MaskLow(ShiftRight(lanes, MAX_ADDS), MAX_ADDS)
      minus_inf32 == MaskLow(ShiftRight(lanes, 3 * MAX_ADDS), MAX_ADDS)
      plus_inf32 == MaskLow(ShiftRight(lanes, 4 * MAX_ADDS), MAX_ADDS)
      nan_32 == MaskLow(ShiftRight(lanes, 5 * MAX_ADDS), MAX_ADDS)
      num == MaskLow(original_plaintext, FLOAT_CARRYOVER_LSB)
      positive_895bit_value ==
        BigAdd(XorOnes(num, FLOAT_CARRYOVER_LSB), BigOne)
      positive_832bit_value ==
        MaskLow(positive_895bit_value, FLOAT_SIGN_LOW_LSB + 1)
  IN  IF IsNanResult(nan_32, plus_inf32, minus_inf32) THEN Returned(NAN)
      ELSE IF plus_inf32 # BigZero THEN Returned(INF_PLUS)
      ELSE IF minus_inf32 # BigZero THEN Returned(INF_MINUS)
      ELSE IF sign_high32 = BigZero /\ sign_low32 # BigZero
        THEN Returned(INF_PLUS)
      ELSE IF sign_high32 = Ones(MAX_ADDS) /\ sign_low32 # Ones(MAX_ADDS)
        THEN Returned(INF_MINUS)
      ELSE IF sign_high32 = BigZero /\ sign_low32 = BigZero
        THEN IF mantissa_and_exponent = BigZero THEN Returned(ZERO)
             ELSE Returned(PackFloat(mantissa_and_exponent, 0))
      ELSE IF sign_high32 = Ones(MAX_ADDS) /\ sign_low32 = Ones(MAX_ADDS)
        THEN IF ShiftRight(positive_832bit_value, FLOAT_SIGN_LOW_LSB) # BigZero
               THEN Returned(INF_MINUS)
               ELSE Returned(PackFloat(positive_832bit_value, 1))
      ELSE Raised("ValueError")

(***************************************************************************)
(* Part D.  ebq_crypto.py, common_crypto.py and number.py: the four        *)
(* ciphers with the encodings around them.                                 *)
(*                                                                         *)
(* A byte string is a sequence of numbers in 0..255, a unicode string a    *)
(* sequence of code points, a base64 text a sequence of characters.  The   *)
(* AES block cipher of the Crypto library is replaced by a keyed           *)
(* permutation of 16-byte blocks; the CBC chaining, the padding, the IV    *)
(* handling and the encodings are computed as the code computes them.      *)
(***************************************************************************)

AES_BLOCK_LEN == 16
AES_IV_LEN == AES_BLOCK_LEN
VALID_AES_KEY_LENGTHS == {16, 24, 32}

\* A Python 2 string object: a unicode or a (byte) str.
Unicode(data) == [type |-> "unicode", data |-> data]
Str(data) == [type |-> "str", data |-> data]

\* a == b for two Python 2 strings: a str is compared with a unicode through
\* its ASCII decoding, and is unequal to it when it has a byte over 127.
PyEquals(a, b) ==
  /\ a.data = b.data
  /\ a.type # b.type =>
       \A i \in 1..Len(a.data) : a.data[i] < 128

\* count * chr(byte)
Repeat(count, byte) == [i \in 1..count |-> byte]

\* unicode.encode('utf-8') of one code point.
Utf8EncodeChar(c) ==
  IF c < 128 THEN <<c>>
  ELSE IF c < 2048 THEN <<192 + c \div 64, 128 + (c % 64)>>
  ELSE IF c < 65536
    THEN <<224 + c \div 4096, 128 + ((c \div 64) % 64), 128 + (c % 64)>>
  ELSE <<240 + c \div 262144, 128 + ((c \div 4096) % 64),
         128 + ((c \div 64) % 64), 128 + (c % 64)>>

\* unicode.encode('utf-8'): the bytes of the code points one after the
\* other; before[i] is the number of the bytes of those before the i-th.
Utf8Encode(s) ==
  LET More(i, limit) == Cardinality({j \in 1..(i - 1) : s[j] >= limit})
      before == [i \in 1..(Len(s) + 1) |->
                   (i - 1) + More(i, 128) + More(i, 2048) + More(i, 65536)]
  IN  [k \in 1..before[Len(s) + 1] |->
         LET i == CHOOSE j \in 1..Len(s) : before[j] < k /\ k <= before[j + 1]
         IN  Utf8EncodeChar(s[i])[k - before[i]]]

\* The code point of the n bytes of data from position i on.
Utf8CodePoint(data, i, n) ==
  IF n = 1 THEN data[i]
  ELSE IF n = 2 THEN (data[i] - 192) * 64 + (data[i + 1] - 128)
  ELSE IF n = 3
    THEN (data[i] - 224) * 4096 + (data[i + 1] - 128) * 64 + (data[i + 2] - 128)
  ELSE (data[i] - 240) * 262144 + (data[i + 1] - 128) * 4096
       + (data[i + 2] - 128) * 64 + (data[i + 3] - 128)

\* str.decode('utf-8'), strict: a lead byte announces its continuation
\* bytes; a stray, missing or overlong sequence is a UnicodeDecodeError.
RECURSIVE Utf8DecodeFrom(_, _, _)
Utf8DecodeFrom(data, i, decoded) ==
  IF i > Len(data) THEN Returned(decoded)
  ELSE LET lead == data[i]
           n == IF lead < 128 THEN 1
                ELSE IF lead >= 194 /\ lead < 224 THEN 2
                ELSE IF lead >= 224 /\ lead < 240 THEN 3
                ELSE IF lead >= 240 /\ lead < 245 THEN 4
                ELSE 0
           c == Utf8CodePoint(data, i, n)
       IN  IF \/ n = 0
              \/ i + n - 1 > Len(data)
              \/ \E j \in 1..(n - 1) : data[i + j] < 128 \/ data[i + j] >= 192
              \/ n = 3 /\ c < 2048
              \/ n = 4 /\ (c < 65536 \/ c > 1114111)
             THEN Raised("UnicodeDecodeError")
             ELSE Utf8DecodeFrom(data, i + n, Append(decoded, c))
Utf8Decode(data) == Utf8DecodeFrom(data, 1, <<>>)

\* The base64 alphabet.
B64Chars ==
  <<"A", "B", "C", "D", "E", "F", "G", "H", "I", "J", "K", "L", "M", "N", "O",
    "P", "Q", "R", "S", "T", "U", "V", "W", "X", "Y", "Z", "a", "b", "c", "d",
    "e", "f", "g", "h", "i", "j", "k", "l", "m", "n", "o", "p", "q", "r", "s",
    "t", "u", "v", "w", "x", "y", "z", "0", "1", "2", "3", "4", "5", "6", "7",
    "8", "9", "+", "/">>
B64Char(sextet) == B64Chars[sextet + 1]
B64Sextet(char) == (CHOOSE i \in 1..Len(B64Chars) : B64Chars[i] = char) - 1

\* base64.b64encode: every three bytes make four characters, and a last
\* group of one or two bytes is filled up with "=".
B64Encode(data) ==
  LET Byte(i) == IF i <= Len(data) THEN data[i] ELSE 0
  IN  [k \in 1..(4 * ((Len(data) + 2) \div 3)) |->
         LET first == 3 * ((k - 1) \div 4) + 1
             place == (k - 1) % 4
         IN  IF place = 0 THEN B64Char(Byte(first) \div 4)
             ELSE IF place = 1
               THEN B64Char((Byte(first) % 4) * 16 + Byte(first + 1) \div 16)
             ELSE IF first + place - 1 > Len(data) THEN "="
             ELSE IF place = 2
               THEN B64Char((Byte(first + 1) % 16) * 4 + Byte(first + 2) \div 64)
             ELSE B64Char(Byte(first + 2) % 64)]

\* base64.b64decode of a text b64encode made.
B64Decode(text) ==
  LET Sextet(k) == IF text[k] = "=" THEN 0 ELSE B64Sextet(text[k])
      padding == IF Len(text) = 0 \/ text[Len(text)] # "=" THEN 0
                 ELSE IF text[Len(text) - 1] # "=" THEN 1
                 ELSE 2
  IN  [i \in 1..(3 * (Len(text) \div 4) - padding) |->
         LET first == 4 * ((i - 1) \div 3) + 1
             place == (i - 1) % 3
         IN  IF place = 0 THEN Sextet(first) * 4 + Sextet(first + 1) \div 16
             ELSE IF place = 1
               THEN (Sextet(first + 1) % 16) * 16 + Sextet(first + 2) \div 4
             ELSE (Sextet(first + 2) % 4) * 64 + Sextet(first + 3)]

\* a ^ b for two bytes.
RECURSIVE XorByte(_, _)
XorByte(a, b) ==
  IF a = 0 THEN b
  ELSE IF b = 0 THEN a
  ELSE ((a + b) % 2) + 2 * XorByte(a \div 2, b \div 2)

\* The block cipher under `key`: a stand-in for AES, a permutation of the
\* 16-byte blocks that depends on every byte of the key.
KeyByte(key, i) == key[((i - 1) % Len(key)) + 1]
AesEncryptBlock(key, block) ==
  [i \in 1..AES_BLOCK_LEN |->
     (block[i] + KeyByte(key, i) + KeyByte(key, i + AES_BLOCK_LEN)) % 256]
AesDecryptBlock(key, block) ==
  [i \in 1..AES_BLOCK_LEN |->
     (block[i] + 512 - KeyByte(key, i) - KeyByte(key, i + AES_BLOCK_LEN)) % 256]

\* AES.new(key, AES.MODE_CBC, iv).encrypt(data): each block is xored with
\* the previous ciphertext block (the iv at first) and then encrypted.
RECURSIVE CbcEncrypt(_, _, _)
CbcEncrypt(key, iv, data) ==
  IF Len(data) = 0 THEN <<>>
  ELSE LET block == AesEncryptBlock(key,
                      [i \in 1..AES_BLOCK_LEN |-> XorByte(data[i], iv[i])])
       IN  block \o CbcEncrypt(key, block,
                               SubSeq(data, AES_BLOCK_LEN + 1, Len(data)))

\* AES.new(key, AES.MODE_CBC, iv).decrypt(data)
RECURSIVE CbcDecrypt(_, _, _)
CbcDecrypt(key, iv, data) ==
  IF Len(data) = 0 THEN <<>>
  ELSE LET block == AesDecryptBlock(key, SubSeq(data, 1, AES_BLOCK_LEN))
       IN  [i \in 1..AES_BLOCK_LEN |-> XorByte(block[i], iv[i])]
           \o CbcDecrypt(key, SubSeq(data, 1, AES_BLOCK_LEN),
                         SubSeq(data, AES_BLOCK_LEN + 1, Len(data)))

\* The iv argument of AesCbc.Encrypt and AesCbc.Decrypt: None, or bytes.
None == [given |-> FALSE, bytes |-> <<>>]
Iv(bytes) == [given |-> TRUE, bytes |-> bytes]

\* AesCbc.Encrypt, lines 188-190: the padding of a plaintext of that length.
Pkcs5Padding_NoneOnFullBlock(length) ==
  LET pkcs5_padding_len == (AES_BLOCK_LEN - (length % AES_BLOCK_LEN))
                           % AES_BLOCK_LEN
  IN  Repeat(pkcs5_padding_len, pkcs5_padding_len)
Pkcs5Padding(length) ==
  LET pkcs5_padding_len == AES_BLOCK_LEN - (length % AES_BLOCK_LEN)
  IN  Repeat(pkcs5_padding_len, pkcs5_padding_len)

\* AesCbc.Encrypt; rand_bytes is what GetRandBytes returns when it is called.
AesCbc_Encrypt(key, plaintext, iv, rand_bytes) ==
  IF Len(plaintext) = 0 THEN Raised("ValueError")
  ELSE IF iv.given /\ Len(iv.bytes) # AES_IV_LEN THEN Raised("ValueError")
  ELSE LET iv_for_encrypt == IF ~iv.given THEN rand_bytes ELSE iv.bytes
           pkcs5_padding == Pkcs5Padding(Len(plaintext))
           ciphertext == CbcEncrypt(key, iv_for_encrypt,
                                    plaintext \o pkcs5_padding)
       IN  IF ~iv.given THEN Returned(iv_for_encrypt \o ciphertext)
           ELSE Returned(ciphertext)

\* AesCbc.Decrypt
AesCbc_Decrypt(key, ciphertext, iv) ==
  IF Len(ciphertext) = 0 THEN Raised("ValueError")
  ELSE IF Len(ciphertext) % AES_BLOCK_LEN # 0 THEN Raised("ValueError")
  ELSE IF iv.given /\ Len(iv.bytes) # AES_IV_LEN THEN Raised("ValueError")
  ELSE LET iv_for_decrypt ==
             IF ~iv.given THEN SubSeq(ciphertext, 1, AES_IV_LEN) ELSE iv.bytes
           ciphertext_for_decrypt ==
             IF ~iv.given
               THEN SubSeq(ciphertext, AES_IV_LEN + 1, Len(ciphertext))
               ELSE ciphertext
           plaintext_with_pad ==
             CbcDecrypt(key, iv_for_decrypt, ciphertext_for_decrypt)
           length == Len(plaintext_with_pad)
           pkcs5_padding_len == plaintext_with_pad[length]
       IN  IF length = 0 THEN Raised("IndexError")
           ELSE IF pkcs5_padding_len > AES_BLOCK_LEN THEN Raised("ValueError")
           ELSE IF pkcs5_padding_len = 0 THEN Raised("ValueError")
           ELSE IF SubSeq(plaintext_with_pad, length - pkcs5_padding_len + 1,
                          length)
                   # Repeat(pkcs5_padding_len, pkcs5_padding_len)
             THEN Raised("ValueError")
           ELSE Returned(SubSeq(plaintext_with_pad, 1,
                                length - pkcs5_padding_len))

\* ProbabilisticCipher.Encrypt
ProbabilisticCipher_Encrypt(key, plaintext, rand_bytes) ==
  LET encoded == IF plaintext.type = "unicode" THEN Utf8Encode(plaintext.data)
                 ELSE plaintext.data
      ciphertext == AesCbc_Encrypt(key, encoded, None, rand_bytes)
  IN  IF Len(encoded) = 0 THEN Raised("ValueError")
      ELSE IF ciphertext.error # "none" THEN ciphertext
      ELSE Returned(B64Encode(ciphertext.value))

\* What Decrypt returns for the raw plaintext AesCbc.Decrypt gave.
DecodeUnlessRaw(raw_plaintext, raw) ==
  IF raw_plaintext.error # "none" THEN raw_plaintext
  ELSE IF raw THEN Returned(Str(raw_plaintext.value))
  ELSE LET decoded == Utf8Decode(raw_plaintext.value)
       IN  IF decoded.error # "none" THEN decoded
           ELSE Returned(Unicode(decoded.value))

\* ProbabilisticCipher.Decrypt
ProbabilisticCipher_Decrypt(key, ciphertext, raw) ==
  DecodeUnlessRaw(AesCbc_Decrypt(key, B64Decode(ciphertext), None), raw)

\* PseudonymCipher.Encrypt
PseudonymCipher_Encrypt(key, plaintext) ==
  LET encoded == IF plaintext.type = "unicode" THEN Utf8Encode(plaintext.data)
                 ELSE plaintext.data
      ciphertext == AesCbc_Encrypt(key, encoded, Iv(Repeat(16, 0)), <<>>)
  IN  IF Len(encoded) = 0 THEN Raised("ValueError")
      ELSE IF ciphertext.error # "none" THEN ciphertext
      ELSE Returned(B64Encode(ciphertext.value))

\* PseudonymCipher.Decrypt
PseudonymCipher_Decrypt(key, ciphertext, raw) ==
  DecodeUnlessRaw(
    AesCbc_Decrypt(key, B64Decode(ciphertext), Iv(Repeat(16, 0))), raw)

\* number.LongToBytes: the 32-bit units of the number, the most significant
\* first, each packed as four bytes ('>I'); 0 is one unit.
LongToBytes(number) ==
  LET components == Max2(1, (BitLength(number) + 31) \div 32)
  IN  [i \in 1..(4 * components) |->
         Limb(MaskLow(ShiftRight(number, 8 * (4 * components - i)), 8), 1)]

\* number.BytesToLong: the string is padded on the left with zero bytes to
\* whole 32-bit units ('>I'), and the units are added up, each shifted to
\* its place: bit b of the result is bit b of the string read as one number.
BytesToLong(byte_string) ==
  LET length == Len(byte_string)
      BitOf(b) == IF b \div 8 >= length THEN 0
                  ELSE (byte_string[length - b \div 8] \div 2^(b % 8)) % 2
      LimbOf(j) ==
        LET Sum[t \in 0..LimbBits] ==
              IF t = 0 THEN 0
              ELSE Sum[t - 1] + BitOf((j - 1) * LimbBits + t - 1) * 2^(t - 1)
        IN  Sum[LimbBits]
  IN  Norm([j \in 1..((8 * length) \div LimbBits + 1) |-> LimbOf(j)])

\* The long a Paillier ciphertext is, and the ciphertext a long is.
CiphertextLong(ciphertext) == ciphertext.payload
LongCiphertext(number) == [payload |-> number]

\* HomomorphicIntCipher.Encrypt and Decrypt
HomomorphicIntCipher_Encrypt(plaintext) ==
  LET ciphertext == EncryptInt64(plaintext)
  IN  IF ciphertext.error # "none" THEN Raised(ciphertext.error)
      ELSE Returned(B64Encode(LongToBytes(CiphertextLong(ciphertext.value))))
HomomorphicIntCipher_Decrypt(ciphertext) ==
  DecryptInt64(LongCiphertext(BytesToLong(B64Decode(ciphertext))))

\* HomomorphicFloatCipher.Encrypt and Decrypt
HomomorphicFloatCipher_Encrypt(plaintext) ==
  LET ciphertext == EncryptFloat(plaintext)
  IN  IF ciphertext.error # "none" THEN Raised(ciphertext.error)
      ELSE Returned(B64Encode(LongToBytes(CiphertextLong(ciphertext.value))))
HomomorphicFloatCipher_Decrypt(ciphertext) ==
  DecryptFloat(LongCiphertext(BytesToLong(B64Decode(ciphertext))))

(***************************************************************************)
(* The four ciphers at work: a cipher is built from a key, one plaintext   *)
(* is handed to Encrypt and what Encrypt returns is handed to Decrypt.     *)
(***************************************************************************)

\* The part of the state a cipher leaves alone.
CryptoOnly == UNCHANGED <<clientVars, queryVars, libraryVars>>

\* Bound: the length of the longest text handed to a string cipher; the
\* texts of the last three lengths straddle the AES block length.
MaxTextLen == 17

CipherKinds ==
  {"probabilistic", "pseudonym", "homomorphic_int", "homomorphic_float"}
StringCiphers == {"probabilistic", "pseudonym"}

\* Keys of the three valid lengths.
CipherKey(length, seed) == [i \in 1..length |-> (seed * i + 7) % 256]
CipherKeys == {CipherKey(16, 3), CipherKey(24, 5), CipherKey(32, 11)}

\* What GetRandBytes(16) may return for the iv.
RandBytes == {Repeat(AES_IV_LEN, 0), [i \in 1..AES_IV_LEN |-> 16 * i - 1]}

\* Unicode strings: empty, ASCII, of two, three and four UTF-8 bytes per
\* character, and runs of "a" around the block length.
UnicodeTexts ==
  {<<>>, <<97>>, <<233>>, <<8364>>, <<66376>>, <<97, 233, 8364>>}
  \cup {Repeat(n, 97) : n \in (MaxTextLen - 2)..MaxTextLen}

\* Byte strings: empty, ASCII, UTF-8 of a non-ASCII character, bytes that
\* are no UTF-8, and a block that looks like padding.
ByteTexts ==
  {<<>>, <<0>>, <<97>>, <<255>>, <<195, 169>>, Repeat(AES_BLOCK_LEN, 16)}

Strings ==
  {Unicode(t) : t \in UnicodeTexts} \cup {Str(t) : t \in ByteTexts}

\* Integers in and around [-2^63, 2^63).
Integers64 ==
  {Signed(neg, mag) :
     neg \in BOOLEAN,
     mag \in {BigZero, BigOne, Big(12345), BigSub(Pow2(63), BigOne), Pow2(63),
              BigAdd(Pow2(63), BigOne)}}

\* Doubles of both signs with exponents in and around [-389, 389], and zero.
Exponents ==
  {-FLOAT_MANTISSA_ZERO - 1, -FLOAT_MANTISSA_ZERO, -1, 0, 1,
   FLOAT_MANTISSA_ZERO, FLOAT_MANTISSA_ZERO + 1}
Fractions ==
  {BigZero, BigOne, Pow2(EXPLICIT_MANTISSA_BITS - 1),
   Ones(EXPLICIT_MANTISSA_BITS)}
Doubles ==
  {Double(sign, exponent, fraction) :
     sign \in {0, 1}, exponent \in Exponents, fraction \in Fractions}
  \cup {ZERO}

Plaintexts(kind) ==
  IF kind \in StringCiphers THEN Strings
  ELSE IF kind = "homomorphic_int" THEN Integers64
  ELSE Doubles

\* Nothing was returned yet.
Pending == [error |-> "pending", value |-> BigZero]

CipherInit ==
  /\ cipher_kind \in CipherKinds
  /\ cipher_key \in CipherKeys
  /\ message \in Plaintexts(cipher_kind)
  /\ n_added = BigZero
  /\ n_steps = 0
  /\ encrypted = Pending
  /\ decrypted = Pending
  /\ stage = "built"

\* cipher.Encrypt(message) of a cipher of that kind is called, and returns.
EncryptCalled(kind) == stage = "built" /\ cipher_kind = kind
EncryptReturns ==
  /\ stage' = "encrypted"
  /\ UNCHANGED <<cipher_kind, cipher_key, message, n_added, n_steps, decrypted>>

\* cipher.Decrypt(encrypted) is called with what Encrypt returned, and
\* returns.
DecryptCalled(kind) ==
  stage = "encrypted" /\ cipher_kind = kind /\ encrypted.error = "none"
DecryptReturns(raw) ==
  /\ stage' = IF raw THEN "decrypted_raw" ELSE "decrypted"
  /\ UNCHANGED <<cipher_kind, cipher_key, message, n_added, n_steps, encrypted>>

ProbabilisticEncrypt ==
  /\ EncryptCalled("probabilistic")
  /\ \E rand_bytes \in RandBytes :
       encrypted' = ProbabilisticCipher_Encrypt(cipher_key, message, rand_bytes)
  /\ EncryptReturns
  /\ CryptoOnly

ProbabilisticDecrypt ==
  /\ DecryptCalled("probabilistic")
  /\ \E raw \in BOOLEAN :
       /\ decrypted' =
            ProbabilisticCipher_Decrypt(cipher_key, encrypted.value, raw)
       /\ DecryptReturns(raw)
  /\ CryptoOnly

PseudonymEncrypt ==
  /\ EncryptCalled("pseudonym")
  /\ encrypted' = PseudonymCipher_Encrypt(cipher_key, message)
  /\ EncryptReturns
  /\ CryptoOnly

PseudonymDecrypt ==
  /\ DecryptCalled("pseudonym")
  /\ \E raw \in BOOLEAN :
       /\ decrypted' = PseudonymCipher_Decrypt(cipher_key, encrypted.value, raw)
       /\ DecryptReturns(raw)
  /\ CryptoOnly

HomomorphicIntEncrypt ==
  /\ EncryptCalled("homomorphic_int")
  /\ encrypted' = HomomorphicIntCipher_Encrypt(message)
  /\ EncryptReturns
  /\ CryptoOnly

HomomorphicIntDecrypt ==
  /\ DecryptCalled("homomorphic_int")
  /\ decrypted' = HomomorphicIntCipher_Decrypt(encrypted.value)
  /\ DecryptReturns(FALSE)
  /\ CryptoOnly

HomomorphicFloatEncrypt ==
  /\ EncryptCalled("homomorphic_float")
  /\ encrypted' = HomomorphicFloatCipher_Encrypt(message)
  /\ EncryptReturns
  /\ CryptoOnly

HomomorphicFloatDecrypt ==
  /\ DecryptCalled("homomorphic_float")
  /\ decrypted' = HomomorphicFloatCipher_Decrypt(encrypted.value)
  /\ DecryptReturns(FALSE)
  /\ CryptoOnly

InitCipher == CipherInit /\ ClientIdle /\ QueryIdle /\ LibraryIdle

NextCipher ==
  \/ ProbabilisticEncrypt
  \/ ProbabilisticDecrypt
  \/ PseudonymEncrypt
  \/ PseudonymDecrypt
  \/ HomomorphicIntEncrypt
  \/ HomomorphicIntDecrypt
  \/ HomomorphicFloatEncrypt
  \/ HomomorphicFloatDecrypt

SpecCipher == InitCipher /\ [][NextCipher]_vars

\* x is an integer in [-2^63, 2^63).
IsInt64(x) == ~SignedLess(x, MIN_INT64) /\ ~SignedLess(MAX_INT64, x)

\* x is a finite double whose binary exponent e satisfies |e| <= 389.
IsFloatOfBand(x) ==
  /\ ExponentFieldOf(x) # 2 * EXPONENT_BIAS + 1
  /\ ExponentFieldOf(x) - EXPONENT_BIAS >= -389
  /\ ExponentFieldOf(x) - EXPONENT_BIAS <= 389

\* C3 as the specification states it: for each of the four ciphers built
\* from any valid key, Decrypt(Encrypt(x)) = x for every x in its domain:
\* any string for Probabilistic and Pseudonym, any integer in [-2^63, 2^63)
\* for HomomorphicInt, any finite double with |e| <= 389 for
\* HomomorphicFloat.  Encrypt returns, and Decrypt returns a value equal to x.
C3_RoundTripOfEveryString ==
  LET domain == IF cipher_kind \in StringCiphers THEN TRUE
                ELSE IF cipher_kind = "homomorphic_int" THEN IsInt64(message)
                ELSE IsFloatOfBand(message)
  IN  /\ (stage # "built" /\ domain) => encrypted.error = "none"
      /\ (stage = "decrypted" /\ domain) =>
           /\ decrypted.error = "none"
           /\ IF cipher_kind \in StringCiphers
                THEN PyEquals(decrypted.value, message)
                ELSE decrypted.value = message

\* C3: for each of the four ciphers built from any valid key,
\* Decrypt(Encrypt(x)) = x for every x in its domain: any non-empty unicode
\* string for Probabilistic and Pseudonym (a non-empty byte string x is
\* returned unchanged by Decrypt(Encrypt(x), raw=True), and Encrypt raises
\* ValueError on the empty string), any integer in [-2^63, 2^63) for
\* HomomorphicInt, and any finite double whose binary exponent e satisfies
\* |e| <= 389 for HomomorphicFloat.
C3_RoundTripOnDomain ==
  LET domain == IF cipher_kind \in StringCiphers THEN Len(message.data) > 0
                ELSE IF cipher_kind = "homomorphic_int" THEN IsInt64(message)
                ELSE IsFloatOfBand(message)
      text == cipher_kind \in StringCiphers
  IN  /\ (stage # "built" /\ domain) => encrypted.error = "none"
      /\ (stage # "built" /\ text /\ ~domain) => encrypted.error = "ValueError"
      /\ (stage = "decrypted" /\ domain /\ (text => message.type = "unicode"))
           => decrypted = Returned(message)
      /\ (stage = "decrypted_raw" /\ domain /\ message.type = "str")
           => decrypted = Returned(message)

\* A unicode string of more than one block with its pseudonym decrypted.
C3_LongTextRoundTrip ==
  /\ stage = "decrypted"
  /\ cipher_kind = "pseudonym"
  /\ message.type = "unicode"
  /\ Len(message.data) > AES_BLOCK_LEN
  /\ decrypted = Returned(message)

(***************************************************************************)
(* Sums of encrypted int64 values: ciphertexts of EncryptInt64 are folded  *)
(* with Add and the fold is handed to DecryptInt64.  `message` is the sum  *)
(* of the values themselves, `n_added` the number of values folded.        *)
(***************************************************************************)

\* Bound: the number of steps in which values are added to a fold.
MaxFoldSteps == 4

\* The values folded: the ends of the int64 range and small values.
Int64Values ==
  {Signed(FALSE, BigOne), Signed(TRUE, BigOne), Signed(TRUE, Big(12345)),
   MAX_INT64, MIN_INT64}

\* A step adds many ciphertexts of one value at once: 2^doublings of them,
\* or one less.
Copies(doublings, less) == [doublings |-> doublings, less |-> less]
CountOf(copies) ==
  BigSub(Pow2(copies.doublings), IF copies.less THEN BigOne ELSE BigZero)
Int64Copies == {Copies(d, FALSE) : d \in {0, 1, 31, 32}}

\* count times x, for the count of `copies`.
Times(copies, x) ==
  BigSub(ShiftLeft(x, copies.doublings), IF copies.less THEN x ELSE BigZero)

\* The Add-fold of as many ciphertexts equal to `ciphertext`: Add adds the
\* payloads, so the fold holds the payload times their number.
AddCopies(ciphertext, copies) ==
  [payload |-> Times(copies, ciphertext.payload)]

Int64SumInit ==
  /\ cipher_kind = "homomorphic_int"
  /\ cipher_key = <<>>
  /\ message = Signed(FALSE, BigZero)
  /\ n_added = BigZero
  /\ n_steps = 0
  /\ encrypted = Pending
  /\ decrypted = Pending
  /\ stage = "folding"

\* EncryptInt64 of a number of values equal to plaintext, each added to the
\* fold with Add; at most 2^32 values are folded.
AddInt64 ==
  /\ stage = "folding"
  /\ cipher_kind = "homomorphic_int"
  /\ \E plaintext \in Int64Values, copies \in Int64Copies :
       LET ciphertexts == AddCopies(EncryptInt64(plaintext).value, copies)
       IN  /\ ~BigLess(Pow2(32), BigAdd(n_added, CountOf(copies)))
           /\ n_steps < MaxFoldSteps
           /\ encrypted' = IF n_added = BigZero THEN Returned(ciphertexts)
                           ELSE Returned(Add(encrypted.value, ciphertexts))
           /\ message' = SignedAdd(message,
                                   Signed(plaintext.neg,
                                          Times(copies, plaintext.mag)))
           /\ n_added' = BigAdd(n_added, CountOf(copies))
           /\ n_steps' = n_steps + 1
  /\ UNCHANGED <<cipher_kind, cipher_key, decrypted, stage>>
  /\ CryptoOnly

\* DecryptInt64 of the fold.
DecryptInt64Sum ==
  /\ stage = "folding"
  /\ cipher_kind = "homomorphic_int"
  /\ n_added # BigZero
  /\ decrypted' = DecryptInt64(encrypted.value)
  /\ stage' = "decrypted"
  /\ UNCHANGED <<cipher_kind, cipher_key, message, n_added, n_steps, encrypted>>
  /\ CryptoOnly

InitInt64Sum == Int64SumInit /\ ClientIdle /\ QueryIdle /\ LibraryIdle

NextInt64Sum == AddInt64 \/ DecryptInt64Sum

SpecInt64Sum == InitInt64Sum /\ [][NextInt64Sum]_vars

\* C4: for any sequence of k values (1 <= k <= 2^32), each in
\* [-2^63, 2^63) and of any mix of signs, DecryptInt64 of the Add-fold of
\* their EncryptInt64 ciphertexts returns exactly the sum of the values when
\* the sum lies in [-2^63, 2^63), and raises OverflowError when it does not.
C4_FoldDecryptsToSumOrOverflows ==
  stage = "decrypted" =>
    IF IsInt64(message) THEN decrypted = Returned(message)
    ELSE decrypted.error = "OverflowError"

\* 2^32 values of both signs were folded and their sum, in range and not
\* zero, came back.
C4_FullFoldOfMixedSigns ==
  /\ stage = "decrypted"
  /\ n_added = Pow2(32)
  /\ n_steps > 1
  /\ message.neg
  /\ decrypted = Returned(message)

\* 2^32 values were folded and their sum, out of range, raised.
C4_FullFoldOverflows ==
  /\ stage = "decrypted"
  /\ n_added = Pow2(32)
  /\ ~IsInt64(message)
  /\ decrypted.error = "OverflowError"

(***************************************************************************)
(* Sums of encrypted floats: ciphertexts of EncryptFloat are folded with   *)
(* Add and the fold is handed to DecryptFloat.  `message` counts the NaN,  *)
(* +inf and -inf operands folded, `n_added` all operands.                  *)
(***************************************************************************)

\* Bound: the number of steps in which floats are added to a fold.
MaxFloatSteps == 4

\* The operands: NaN, the infinities, the largest finite doubles of both
\* signs EncryptFloat takes, and the smallest negative one it keeps.
FloatOperands ==
  {NAN, INF_PLUS, INF_MINUS,
   Double(0, FLOAT_MANTISSA_ZERO, Ones(EXPLICIT_MANTISSA_BITS)),
   Double(1, FLOAT_MANTISSA_ZERO, Ones(EXPLICIT_MANTISSA_BITS)),
   Double(1, -FLOAT_MANTISSA_ZERO - EXPLICIT_MANTISSA_BITS, BigZero)}

\* One operand, 2^31 operands, or 2^32 - 1 operands in a step.
FloatCopies == {Copies(0, FALSE), Copies(31, FALSE), Copies(32, TRUE)}

\* What is counted when `count` operands equal to x are folded.
Counted(counts, x, count) ==
  [nan |-> IF IsNan(x) THEN BigAdd(counts.nan, count) ELSE counts.nan,
   plus_inf |-> IF IsInfPlus(x) THEN BigAdd(counts.plus_inf, count)
                ELSE counts.plus_inf,
   minus_inf |-> IF IsInfMinus(x) THEN BigAdd(counts.minus_inf, count)
                 ELSE counts.minus_inf]

FloatLanesInit ==
  /\ cipher_kind = "homomorphic_float"
  /\ cipher_key = <<>>
  /\ message = [nan |-> BigZero, plus_inf |-> BigZero, minus_inf |-> BigZero]
  /\ n_added = BigZero
  /\ n_steps = 0
  /\ encrypted = Pending
  /\ decrypted = Pending
  /\ stage = "folding"

\* EncryptFloat of a number of operands equal to plaintext, each added to
\* the fold with Add; fewer than 2^32 operands are folded.
AddFloat ==
  /\ stage = "folding"
  /\ cipher_kind = "homomorphic_float"
  /\ \E plaintext \in FloatOperands, copies \in FloatCopies :
       LET ciphertexts == AddCopies(EncryptFloat(plaintext).value, copies)
       IN  /\ BigLess(BigAdd(n_added, CountOf(copies)), Pow2(MAX_ADDS))
           /\ n_steps < MaxFloatSteps
           /\ encrypted' = IF n_added = BigZero THEN Returned(ciphertexts)
                           ELSE Returned(Add(encrypted.value, ciphertexts))
           /\ message' = Counted(message, plaintext, CountOf(copies))
           /\ n_added' = BigAdd(n_added, CountOf(copies))
           /\ n_steps' = n_steps + 1
  /\ UNCHANGED <<cipher_kind, cipher_key, decrypted, stage>>
  /\ CryptoOnly

\* DecryptFloat of the fold.
DecryptFloatSum ==
  /\ stage = "folding"
  /\ cipher_kind = "homomorphic_float"
  /\ n_added # BigZero
  /\ decrypted' = DecryptFloat(encrypted.value)
  /\ stage' = "decrypted"
  /\ UNCHANGED <<cipher_kind, cipher_key, message, n_added, n_steps, encrypted>>
  /\ CryptoOnly

InitFloatLanes == FloatLanesInit /\ ClientIdle /\ QueryIdle /\ LibraryIdle

NextFloatLanes == AddFloat \/ DecryptFloatSum

SpecFloatLanes == InitFloatLanes /\ [][NextFloatLanes]_vars

\* The 32-bit lane of a payload that starts at bit lsb.
Lane(payload, lsb) == MaskLow(ShiftRight(payload, lsb), MAX_ADDS)

\* C5: for any sequence of fewer than 2^32 float ciphertexts combined with
\* Add, the decrypted result is NaN if and only if at least one operand
\* encrypts NaN or the operands include both +infinity and -infinity; the
\* NaN, +infinity and -infinity lanes of the fold hold the numbers of such
\* operands, whatever finite operands were added (and the fold stays below
\* the modulus).
C5_NanIffNanOrBothInfinities ==
  /\ n_added # BigZero =>
       /\ Lane(encrypted.value.payload, FLOAT_NAN_LSB) = message.nan
       /\ Lane(encrypted.value.payload, FLOAT_PLUSINF_LSB) = message.plus_inf
       /\ Lane(encrypted.value.payload, FLOAT_MINUSINF_LSB) = message.minus_inf
       /\ BitLength(encrypted.value.payload) < N_LENGTH
  /\ stage = "decrypted" =>
       (decrypted = Returned(NAN)
          <=> \/ message.nan # BigZero
              \/ message.plus_inf # BigZero /\ message.minus_inf # BigZero)

\* Both infinities were folded among more than 2^31 operands, some of them
\* finite and none NaN, and NaN came back.
C5_InfinitiesAmongFiniteGiveNan ==
  /\ stage = "decrypted"
  /\ message.nan = BigZero
  /\ message.plus_inf # BigZero
  /\ message.minus_inf # BigZero
  /\ BigLess(Pow2(31), n_added)
  /\ BigLess(BigAdd(message.plus_inf, message.minus_inf), n_added)
  /\ decrypted = Returned(NAN)

(***************************************************************************)
(* The sum of two encrypted floats: EncryptFloat(a) and EncryptFloat(b)    *)
(* are combined with Add and the result is handed to DecryptFloat.         *)
(* `message` is the pair <<a, b>>.                                         *)
(***************************************************************************)

\* The exponents of a and b: the ends of the band, and exponents that lie
\* 0, 1, 2, 52, 53, 54 and more apart.
AddendExponents ==
  {-FLOAT_MANTISSA_ZERO, -54, -53, -1, 0, 1, 52, FLOAT_MANTISSA_ZERO}
Addends ==
  {Double(sign, exponent, fraction) :
     sign \in {0, 1}, exponent \in AddendExponents, fraction \in Fractions}

\* The magnitude of a finite double in units of 2^-(441 + 52), for a double
\* of exponent -441 or more.
Magnitude(x) ==
  ShiftLeft(BigAdd(FractionOf(x), Pow2(EXPLICIT_MANTISSA_BITS)),
            ExponentFieldOf(x) - EXPONENT_BIAS + FLOAT_MANTISSA_ZERO
            + EXPLICIT_MANTISSA_BITS)

\* The double nearest to the number of that sign and magnitude (in the same
\* units), ties to even: what IEEE 754 arithmetic returns for it.
NearestDouble(neg, mag) ==
  LET size == BitLength(mag)
      shift == size - MANTISSA_BITS
      kept == ShiftRight(mag, shift)
      rest == MaskLow(mag, shift)
      half == Pow2(shift - 1)
      up == BigLess(half, rest) \/ (rest = half /\ Bit(kept, 0) = 1)
      mantissa == IF shift <= 0 THEN ShiftLeft(mag, -shift)
                  ELSE IF up THEN BigAdd(kept, BigOne)
                  ELSE kept
      carry == BitLength(mantissa) > MANTISSA_BITS
      exponent == size - 1 + (IF carry THEN 1 ELSE 0) - FLOAT_MANTISSA_ZERO
                  - 2 * EXPLICIT_MANTISSA_BITS
  IN  IF mag = BigZero THEN ZERO
      ELSE Double(IF neg THEN 1 ELSE 0, exponent,
                  IF carry THEN BigZero
                  ELSE MaskLow(mantissa, EXPLICIT_MANTISSA_BITS))

\* a + b in double arithmetic.
DoubleSum(a, b) ==
  LET sum == SignedAdd(Signed(SignOf(a) = 1, Magnitude(a)),
                       Signed(SignOf(b) = 1, Magnitude(b)))
  IN  NearestDouble(sum.neg, sum.mag)

FloatAddInit ==
  /\ cipher_kind = "homomorphic_float"
  /\ cipher_key = <<>>
  /\ message \in Addends \X Addends
  /\ n_added = BigZero
  /\ n_steps = 0
  /\ encrypted = Pending
  /\ decrypted = Pending
  /\ stage = "built"

\* Add(EncryptFloat(a), EncryptFloat(b))
AddEncryptedFloats ==
  /\ stage = "built"
  /\ cipher_kind = "homomorphic_float"
  /\ encrypted' = Returned(Add(EncryptFloat(message[1]).value,
                               EncryptFloat(message[2]).value))
  /\ n_added' = Big(2)
  /\ stage' = "added"
  /\ UNCHANGED <<cipher_kind, cipher_key, message, n_steps, decrypted>>
  /\ CryptoOnly

\* DecryptFloat of the sum.
DecryptFloatOfSum ==
  /\ stage = "added"
  /\ cipher_kind = "homomorphic_float"
  /\ decrypted' = DecryptFloat(encrypted.value)
  /\ stage' = "decrypted"
  /\ UNCHANGED <<cipher_kind, cipher_key, message, n_added, n_steps, encrypted>>
  /\ CryptoOnly

InitFloatAdd == FloatAddInit /\ ClientIdle /\ QueryIdle /\ LibraryIdle

NextFloatAdd == AddEncryptedFloats \/ DecryptFloatOfSum

SpecFloatAdd == InitFloatAdd /\ [][NextFloatAdd]_vars

\* C6: for any finite doubles a and b that are each encodable (exponent
\* <= 389) and whose sum is within the representable band (here: a, b and
\* a + b all have exponents in [-389, 389], or a + b is zero),
\* DecryptFloat(Add(EncryptFloat(a), EncryptFloat(b))) equals the double
\* a + b, for every combination of signs and of exponent difference.
C6_SumOfTwoFloatsIsTheirDoubleSum ==
  (/\ stage = "decrypted"
   /\ IsFloatOfBand(message[1])
   /\ IsFloatOfBand(message[2])
   /\ \/ DoubleSum(message[1], message[2]) = ZERO
      \/ IsFloatOfBand(DoubleSum(message[1], message[2])))
  => decrypted = Returned(DoubleSum(message[1], message[2]))

\* Two doubles of opposite signs and different exponents whose sum is a
\* double came back as that sum.
C6_ExactSumOfOppositeSigns ==
  /\ stage = "decrypted"
  /\ SignOf(message[1]) # SignOf(message[2])
  /\ ExponentFieldOf(message[1]) # ExponentFieldOf(message[2])
  /\ decrypted = Returned(DoubleSum(message[1], message[2]))
  /\ decrypted.value # ZERO

(***************************************************************************)
(* Part E models the rewriting of a query (query_lib.py,                   *)
(* query_interpreter.py, common_util.py) and the conversion of a row of    *)
(* the data file at load time (load_lib.py), with the keys and the keyed   *)
(* hashes they share (ebq_crypto.py, common_crypto.py).                    *)
(*                                                                         *)
(* A Python str is the sequence of its characters, each a string of one    *)
(* character; a byte over 127 is written as Python's repr writes it.  The  *)
(* input of a cipher or a hash is the sequence of the codes.               *)
(***************************************************************************)

\* The printable ASCII characters, from " " (32) to "~" (126); the grave
\* accent (96) is written by its code.
Ascii ==
  <<" ", "!", "\"", "#", "$", "%", "&", "'", "(", ")", "*", "+", ",", "-", ".",
    "/", "0", "1", "2", "3", "4", "5", "6", "7", "8", "9", ":", ";", "<", "=",
    ">", "?", "@", "A", "B", "C", "D", "E", "F", "G", "H", "I", "J", "K", "L",
    "M", "N", "O", "P", "Q", "R", "S", "T", "U", "V", "W", "X", "Y", "Z", "[",
    "\\", "]", "^", "_", "\\x60", "a", "b", "c", "d", "e", "f", "g", "h", "i",
    "j", "k", "l", "m", "n", "o", "p", "q", "r", "s", "t", "u", "v", "w", "x", "y",
    "z", "{", "|", "}", "~">>

\* The bytes over 127 of the strings here: the UTF-8 encoding of u'\xe9'.
HighBytes == <<"\\xc3", "\\xa9">>
HighCodes == <<195, 169>>

\* ord(c) and chr(b)
OrdTable ==
  [c \in {Ascii[i] : i \in 1..Len(Ascii)} \cup
         {HighBytes[i] : i \in 1..Len(HighBytes)} |->
     IF \E i \in 1..Len(Ascii) : Ascii[i] = c
       THEN 31 + (CHOOSE i \in 1..Len(Ascii) : Ascii[i] = c)
       ELSE HighCodes[CHOOSE i \in 1..Len(HighBytes) : HighBytes[i] = c]]
Ord(c) == OrdTable[c]
Chr(b) ==
  IF b >= 32 /\ b < 127 THEN Ascii[b - 31]
  ELSE HighBytes[CHOOSE i \in 1..Len(HighCodes) : HighCodes[i] = b]

\* The bytes of a str, and the str of these bytes.
Ords(s) == [i \in 1..Len(s) |-> Ord(s[i])]
Chrs(bytes) == [i \in 1..Len(bytes) |-> Chr(bytes[i])]

\* unicode(s) of a str s: the ASCII decoding.
AsciiDecode(s) ==
  IF \E i \in 1..Len(s) : Ord(s[i]) >= 128 THEN Raised("UnicodeDecodeError")
  ELSE Returned(Unicode(Ords(s)))

\* str(n) of an int n
RECURSIVE StrOfNat(_)
StrOfNat(n) ==
  IF n < 10 THEN <<Chr(48 + n)>>
  ELSE StrOfNat(n \div 10) \o <<Chr(48 + (n % 10))>>
StrOfInt(n) == IF n < 0 THEN <<"-">> \o StrOfNat(-n) ELSE StrOfNat(n)

\* s.startswith(prefix) and s.endswith(suffix)
StartsWith(s, prefix) ==
  Len(s) >= Len(prefix) /\ SubSeq(s, 1, Len(prefix)) = prefix
EndsWith(s, suffix) ==
  /\ Len(s) >= Len(suffix)
  /\ SubSeq(s, Len(s) - Len(suffix) + 1, Len(s)) = suffix

\* sub in s
IsSubstring(sub, s) ==
  \E i \in 1..(Len(s) - Len(sub) + 1) : SubSeq(s, i, i + Len(sub) - 1) = sub

\* s.split(sep) for a separator that is not empty and does not overlap
\* itself: the pieces between its occurrences.
Split(s, sep) ==
  LET n == Len(sep)
      found == {i \in 1..(Len(s) - n + 1) : SubSeq(s, i, i + n - 1) = sep}
      Nth(k) == CHOOSE i \in found : Cardinality({j \in found : j < i}) = k - 1
      Start(k) == IF k = 1 THEN 1 ELSE Nth(k - 1) + n
      End(k) == IF k > Cardinality(found) THEN Len(s) ELSE Nth(k) - 1
  IN  [k \in 1..(Cardinality(found) + 1) |-> SubSeq(s, Start(k), End(k))]

\* sep.join(parts)
RECURSIVE Join(_, _)
Join(sep, parts) ==
  IF Len(parts) = 0 THEN <<>>
  ELSE IF Len(parts) = 1 THEN parts[1]
  ELSE parts[1] \o sep \o Join(sep, Tail(parts))

\* F(value), with the value computed once.
With(value, F(_)) == CHOOSE result \in {F(v) : v \in {value}} : TRUE

\* A value that may be None.
NoneValue == [given |-> FALSE, value |-> <<>>]
Given(value) == [given |-> TRUE, value |-> value]

(***************************************************************************)
(* common_crypto.py: the pseudorandom function.                            *)
(***************************************************************************)

\* hashlib.sha1(data).digest(): a stand-in for SHA-1, 20 bytes that depend
\* on the length of data and on every byte of it.  The data is taken in
\* blocks of 16 bytes; two running values mix the blocks with different
\* weights.
Sha1(data) ==
  LET n == Len(data)
      blocks == (n + 15) \div 16
      Byte(i) == IF i <= n THEN data[i] ELSE 0
      Mix1(k) ==
        LET sum[t \in 0..16] ==
              IF t = 0 THEN 0
              ELSE sum[t - 1] + (Byte(16 * (k - 1) + t) + 1) * (2 * t + 1)
        IN  sum[16]
      Mix2(k) ==
        LET sum[t \in 0..16] ==
              IF t = 0 THEN 0
              ELSE sum[t - 1] + (Byte(16 * (k - 1) + t) + 3) * (t * t + 5)
        IN  sum[16]
      h1[k \in 0..blocks] ==
        IF k = 0 THEN n + 1 ELSE (h1[k - 1] * 31 + Mix1(k)) % 32749
      h2[k \in 0..blocks] ==
        IF k = 0 THEN 2 * n + 7 ELSE (h2[k - 1] * 37 + Mix2(k)) % 32719
      a == h1[blocks]
      b == h2[blocks]
  IN  [i \in 1..20 |->
         ((a * (2 * i + 3) + b * (3 * i + 1) + ((a + i * b) % 251) * i)
            \div (1 + (i % 4))) % 256]

\* hmac.new(key, msg, hashlib.sha1).digest()
Hmac(key, msg) ==
  LET block_key == IF Len(key) > 64 THEN Sha1(key) ELSE key
      Pad(byte) ==
        [i \in 1..64 |->
           XorByte(IF i <= Len(block_key) THEN block_key[i] ELSE 0, byte)]
  IN  Sha1(Pad(92) \o Sha1(Pad(54) \o msg))

\* IntToFixedSizeString: '%8s' % value
IntToFixedSizeString(value) ==
  LET digits == StrOfInt(value)
  IN  [i \in 1..(8 - Len(digits)) |-> " "] \o digits

\* The blocks of PRF from the block `count` on, `remaining` bytes in all.
RECURSIVE PrfOutput(_, _, _, _)
PrfOutput(key, input_str, count, remaining) ==
  IF remaining <= 0 THEN <<>>
  ELSE LET digest == Hmac(key, Ords(IntToFixedSizeString(count)) \o input_str)
       IN  SubSeq(digest, 1, IF remaining < 16 THEN remaining ELSE 16)
           \o PrfOutput(key, input_str, count + 1, remaining - 16)

\* PRF(key, input_str, output_len) with hashfunc='sha1'; input_str is a str.
PRF(key, input_str, output_len) ==
  IF Len(key) < 1 THEN Raised("ValueError")
  ELSE IF output_len < 1 THEN Raised("ValueError")
  ELSE Returned(PrfOutput(key, input_str, 0, output_len))

(***************************************************************************)
(* ebq_crypto.py: the keys of a table and the keyed hashes of words.       *)
(***************************************************************************)

\* GeneratePseudonymCipherKey, GenerateProbabilisticCipherKey and
\* GenerateStringHashKey; identifier is a str.
GeneratePseudonymCipherKey(key, identifier) ==
  PRF(key, Ords(<<"p", "s", "e", "u", "d", "o", "n", "y", "m", "_">>
                \o identifier), 16)
GenerateProbabilisticCipherKey(key, identifier) ==
  PRF(key, Ords(<<"p", "r", "o", "b", "a", "b", "i", "l", "i", "s", "t", "i",
      "c", "_">>
                \o identifier), 16)
GenerateStringHashKey(key, identifier) ==
  PRF(key, Ords(<<"s", "t", "r", "i", "n", "g", "h", "a", "s", "h", "_">>
                \o identifier), 16)

\* unicode.lower() of one code point below 256.
LowerCodePoint(c) ==
  IF (c >= 65 /\ c <= 90) \/ (c >= 192 /\ c <= 222 /\ c # 215) THEN c + 32
  ELSE c

\* The code points below 256 that are whitespace for unicode.split(None),
\* and those of a Unicode category P (_GetPunctuationDict).
Whitespace == {9, 10, 11, 12, 13, 28, 29, 30, 31, 32, 133, 160}
Punctuation ==
  {33, 34, 35, 37, 38, 39, 40, 41, 42, 44, 45, 46, 47, 58, 59, 63, 64, 91, 92,
   93, 95, 123, 125, 161, 171, 183, 187, 191}

\* unicode.split(None): the maximal runs of characters that are no
\* whitespace.
SplitWhitespace(s) ==
  LET Space(i) == i < 1 \/ i > Len(s) \/ s[i] \in Whitespace
      starts == {i \in 1..Len(s) : ~Space(i) /\ Space(i - 1)}
      Start(k) ==
        CHOOSE i \in starts : Cardinality({j \in starts : j < i}) = k - 1
      End(i) ==
        CHOOSE j \in i..Len(s) :
          Space(j + 1) /\ \A k \in i..j : ~Space(k)
  IN  [k \in 1..Cardinality(starts) |-> SubSeq(s, Start(k), End(Start(k)))]

\* CleanUnicodeString; s is a unicode, separator a unicode or None.
CleanUnicodeString(s, separator) ==
  LET lower == [i \in 1..Len(s) |-> LowerCodePoint(s[i])]
      NoPunctuation(c) == c \notin Punctuation
      NotEmpty(w) == Len(w) > 0
      split == IF separator.given THEN Split(lower, separator.value)
               ELSE SplitWhitespace(lower)
      words == IF separator.given THEN split
               ELSE [i \in 1..Len(split) |->
                       SelectSeq(split[i], NoPunctuation)]
  IN  SelectSeq(words, NotEmpty)

(***************************************************************************)
(* common_util.py: the prefixes, the tokens of a postfix expression and    *)
(* the schema.                                                             *)
(*                                                                         *)
(* A token is a record of its class, its text (the str it is), num_args    *)
(* and related.  A Python int on the stack is a token of the class "int",  *)
(* a str that is no token one of the class "str".  A schema is the list    *)
(* of its entries, each a record with the keys the entry has.              *)
(***************************************************************************)

DISTINCT_STRING == <<"p", "6", "9", "8", "0", "0", "0", "4", "4", "2", "1",
    "1", "8", "3", "3", "8", "_">>
HOMOMORPHIC_FLOAT_PREFIX == DISTINCT_STRING \o <<"H", "O", "M", "O", "M", "O",
    "R", "P", "H", "I", "C", "_", "F", "L", "O", "A", "T", "_">>
HOMOMORPHIC_INT_PREFIX == DISTINCT_STRING \o <<"H", "O", "M", "O", "M", "O",
    "R", "P", "H", "I", "C", "_", "I", "N", "T", "_">>
PROBABILISTIC_PREFIX == DISTINCT_STRING \o <<"P", "R", "O", "B", "A", "B",
    "I", "L", "I", "S", "T", "I", "C", "_">>
PSEUDONYM_PREFIX == DISTINCT_STRING \o <<"P", "S", "E", "U", "D", "O", "N",
    "Y", "M", "_">>
SEARCHWORDS_PREFIX == DISTINCT_STRING \o <<"S", "E", "A", "R", "C", "H", "W",
    "O", "R", "D", "S", "_">>

ENCRYPTED_FIELD_PREFIXES ==
  {HOMOMORPHIC_FLOAT_PREFIX, HOMOMORPHIC_INT_PREFIX, PROBABILISTIC_PREFIX,
   PSEUDONYM_PREFIX, SEARCHWORDS_PREFIX}

UNENCRYPTED_ALIAS_PREFIX == DISTINCT_STRING \o <<"u", "e">>
GROUP_CONCAT_PREFIX == <<"G", "R", "O", "U", "P", "_", "C", "O", "N", "C",
    "A", "T", "(">>
PAILLIER_SUM_PREFIX == <<"T", "O", "_", "B", "A", "S", "E", "6", "4", "(",
    "B", "Y", "T", "E", "S", "(", "P", "A", "I", "L", "L", "I", "E", "R", "_",
    "S", "U", "M", "(", "F", "R", "O", "M", "_", "B", "A", "S", "E", "6", "4",
    "(">>
PERIOD_REPLACEMENT == <<"_">> \o DISTINCT_STRING \o <<"E", "P", "R", "_">>

\* The subclasses of EncryptedToken, and the classes that are a FieldToken.
EncryptedTokenClasses ==
  {"HomomorphicFloatToken", "HomomorphicIntToken", "ProbabilisticToken",
   "PseudonymToken", "SearchwordsToken"}
FieldTokenClasses == {"FieldToken"} \cup EncryptedTokenClasses

\* str.lower() of an ASCII str
LowerStr(s) ==
  [i \in 1..Len(s) |->
     IF Ord(s[i]) >= 65 /\ Ord(s[i]) <= 90 THEN Chr(Ord(s[i]) + 32) ELSE s[i]]

Token(cls, text, num_args, related) ==
  [cls |-> cls, text |-> text, num_args |-> num_args, related |-> related]

\* The constructors of the token classes.
FieldToken(value) == Token("FieldToken", value, 0, NoneValue)
LiteralToken(str_value) == Token("LiteralToken", str_value, 0, NoneValue)
StringLiteralToken(str_value) ==
  Token("StringLiteralToken", str_value, 0, NoneValue)
AggregationQueryToken(value) ==
  Token("AggregationQueryToken", value, 0, NoneValue)
UnencryptedQueryToken(value) ==
  Token("UnencryptedQueryToken", value, 0, NoneValue)
AggregationFunctionToken(value, num_args) ==
  Token("AggregationFunctionToken", value, num_args, NoneValue)
BuiltInFunctionToken(value) ==
  Token("BuiltInFunctionToken", LowerStr(value), -1, NoneValue)
OperatorToken(value, num_args) ==
  Token("OperatorToken", LowerStr(value), num_args, NoneValue)

\* An int of the stack, and a str that is no token.
IntToken(n) == Token("int", StrOfInt(n), 0, NoneValue)
PlainStr(text) == Token("str", text, 0, NoneValue)

\* EncryptedToken.__new__ without its assignment to cls.original_name (see
\* OriginalNameAfter): the prefix goes before the last part of the name.
EncryptedToken(cls, value, prefix, related) ==
  LET parts == Split(value, <<".">>)
      last == Len(parts)
      value_with_prefix == Join(<<".">>, [parts EXCEPT ![last] = prefix \o @])
  IN  Token(cls, value_with_prefix, 0, related)
HomomorphicFloatToken(value) ==
  EncryptedToken("HomomorphicFloatToken", value, HOMOMORPHIC_FLOAT_PREFIX,
                 NoneValue)
HomomorphicIntToken(value) ==
  EncryptedToken("HomomorphicIntToken", value, HOMOMORPHIC_INT_PREFIX,
                 NoneValue)
ProbabilisticToken(value) ==
  EncryptedToken("ProbabilisticToken", value, PROBABILISTIC_PREFIX, NoneValue)
PseudonymToken(value, related) ==
  EncryptedToken("PseudonymToken", value, PSEUDONYM_PREFIX, related)
SearchwordsToken(value) ==
  EncryptedToken("SearchwordsToken", value, SEARCHWORDS_PREFIX, NoneValue)

\* token.value of a StringLiteralToken: str_value[1:-1]
LiteralValue(token) == SubSeq(token.text, 2, Len(token.text) - 1)

\* GetEntryFromSchema returning None.
NoEntry == [name |-> <<>>]
Found(entry) == entry.name # <<>>

\* FindEntryFromSchema
FindEntryFromSchema(field_name, schema) ==
  IF \E i \in 1..Len(schema) : schema[i].name = field_name
    THEN schema[CHOOSE i \in 1..Len(schema) :
                  /\ schema[i].name = field_name
                  /\ \A j \in 1..(i - 1) : schema[j].name # field_name]
    ELSE NoEntry

\* The loop of GetEntryFromSchema from all_fields[i] on, and its end.
RECURSIVE EntryAlong(_, _, _)
EntryAlong(all_fields, i, schema) ==
  LET entry == FindEntryFromSchema(all_fields[i], schema)
  IN  IF i < Len(all_fields)
        THEN IF ~Found(entry) \/ "fields" \notin DOMAIN entry THEN NoEntry
             ELSE EntryAlong(all_fields, i + 1, entry.fields)
        ELSE IF ~Found(entry) \/ "fields" \in DOMAIN entry THEN NoEntry
             ELSE entry

\* GetEntryFromSchema
GetEntryFromSchema(field_name, schema) ==
  EntryAlong(Split(field_name, <<".">>), 1, schema)

\* IsEncrypted and IsEncryptedExpression
IsEncrypted(token) ==
  \/ token.cls \in EncryptedTokenClasses
  \/ /\ token.cls # "int"
     /\ \E prefix \in ENCRYPTED_FIELD_PREFIXES : StartsWith(token.text, prefix)
IsEncryptedExpression(tokens) ==
  \E i \in 1..Len(tokens) : IsEncrypted(tokens[i])

\* IsDeterministic and IsDeterministicExpression
IsDeterministic(token) ==
  IF token.cls \in EncryptedTokenClasses THEN token.cls # "PseudonymToken"
  ELSE /\ token.cls # "int"
       /\ \E prefix \in ENCRYPTED_FIELD_PREFIXES :
            prefix # PSEUDONYM_PREFIX /\ StartsWith(token.text, prefix)
IsDeterministicExpression(tokens) ==
  \E i \in 1..Len(tokens) : IsDeterministic(tokens[i])

(***************************************************************************)
(* query_lib.py: _RewriteEncryptedFields.                                  *)
(***************************************************************************)

\* RewriteField of _RewriteEncryptedFields
RewriteField(field, schema) ==
  IF field.cls \notin FieldTokenClasses THEN field
  ELSE LET row == GetEntryFromSchema(field.text, schema)
       IN  IF ~Found(row) THEN field
           ELSE IF StartsWith(row.encrypt, <<"p", "r", "o", "b", "a", "b",
               "i", "l", "i", "s", "t", "i", "c">>)
             THEN ProbabilisticToken(field.text)
           ELSE IF row.encrypt = <<"p", "s", "e", "u", "d", "o", "n", "y", "m">>
             THEN IF "related" \in DOMAIN row
                    THEN PseudonymToken(field.text, Given(row.related))
                    ELSE PseudonymToken(field.text, NoneValue)
           ELSE IF row.encrypt = <<"h", "o", "m", "o", "m", "o", "r", "p",
               "h", "i", "c">> /\ row.type = <<"i", "n", "t", "e", "g", "e",
               "r">>
             THEN HomomorphicIntToken(field.text)
           ELSE IF row.encrypt = <<"h", "o", "m", "o", "m", "o", "r", "p",
               "h", "i", "c">> /\ row.type = <<"f", "l", "o", "a", "t">>
             THEN HomomorphicFloatToken(field.text)
           ELSE IF row.encrypt = <<"s", "e", "a", "r", "c", "h", "w", "o",
               "r", "d", "s">>
             THEN SearchwordsToken(field.text)
           ELSE field

\* _RewriteEncryptedFields for one expression
RewriteEncryptedFields(expression, schema) ==
  [i \in 1..Len(expression) |-> RewriteField(expression[i], schema)]

\* The original_name of the token classes after _RewriteEncryptedFields:
\* EncryptedToken.__new__ assigns cls.original_name, an attribute of the
\* class of the token, so a class keeps the name of its last token.
OriginalNameAfter(names, expression, schema) ==
  With(RewriteEncryptedFields(expression, schema),
       LAMBDA rewritten_expression :
         [cls \in EncryptedTokenClasses |->
            LET made == {i \in 1..Len(expression) :
                           /\ rewritten_expression[i] # expression[i]
                           /\ rewritten_expression[i].cls = cls}
            IN  IF made = {} THEN names[cls]
                ELSE LET last == CHOOSE i \in made : \A j \in made : j <= i
                     IN  Given(expression[last].text)])

\* token.original_name of a token of an encrypted class
OriginalName(names, token) == names[token.cls].value

(***************************************************************************)
(* query_interpreter.py: the conversion of a postfix expression to infix.  *)
(***************************************************************************)

\* Of the names of _ZERO_, _ONE_, _TWO_ and _THREE_ARGUMENT_FUNCTIONS, those
\* the expressions here call.
ZERO_ARGUMENT_FUNCTIONS == {<<"p", "i">>}
ONE_ARGUMENT_FUNCTIONS == {<<"a", "b", "s">>, <<"l", "e", "n", "g", "t", "h">>, <<
    "l", "o", "w", "e", "r">>}
TWO_ARGUMENT_FUNCTIONS == {<<"p", "o", "w">>, <<"l", "e", "f", "t">>}
THREE_ARGUMENT_FUNCTIONS == {<<"s", "u", "b", "s", "t", "r">>, <<"i", "f">>}

DISTINCTCOUNT == <<"D", "I", "S", "T", "I", "N", "C", "T", "C", "O", "U", "N",
    "T">>

\* The number of arguments of a built-in function; -1 if there is none of
\* this name.
NumArguments(func_name) ==
  IF func_name \in ZERO_ARGUMENT_FUNCTIONS THEN 0
  ELSE IF func_name \in ONE_ARGUMENT_FUNCTIONS THEN 1
  ELSE IF func_name \in TWO_ARGUMENT_FUNCTIONS THEN 2
  ELSE IF func_name \in THREE_ARGUMENT_FUNCTIONS THEN 3
  ELSE -1

\* What a function over postfix[1..n] gives: an error, or its value and the
\* number of tokens it has left of the stack.
Popped(value, rest) == [error |-> "none", value |-> value, rest |-> rest]
Failed(error) == [error |-> error, value |-> <<>>, rest |-> 0]

\* '%s %s', '(%s %s %s)' and '%s(%s, %s)' with its like
UnaryText(operator, arg) == operator \o <<" ">> \o arg
BinaryText(arg1, operator, arg2) ==
  <<"(">> \o arg1 \o <<" ">> \o operator \o <<" ">> \o arg2 \o <<")">>
CallText(func_name, args) == func_name \o <<"(">> \o Join(<<",", " ">>, args) \o <<
    ")">>

\* _ConvertStack on postfix[1..n], and `count` calls of it in a row with
\* their values in the order of the expression.
RECURSIVE ConvertStack(_, _), ConvertArguments(_, _, _)
ConvertArguments(postfix, n, count) ==
  IF count <= 0 THEN Popped(<<>>, n)
  ELSE LET last == ConvertStack(postfix, n)
           others == ConvertArguments(postfix, last.rest, count - 1)
       IN  IF last.error # "none" THEN last
           ELSE IF others.error # "none" THEN others
           ELSE Popped(Append(others.value, last.value), others.rest)

ConvertStack(postfix, n) ==
  IF n = 0 THEN Failed("BigqueryInvalidQueryError")
  ELSE LET top == postfix[n]
           func_name == top.text
       IN  IF top.cls = "OperatorToken"
             THEN LET args == ConvertArguments(postfix, n - 1, top.num_args)
                  IN  IF args.error # "none" THEN args
                      ELSE IF top.num_args = 1
                        THEN Popped(UnaryText(top.text, args.value[1]),
                                    args.rest)
                      ELSE Popped(BinaryText(args.value[1], top.text,
                                             args.value[2]), args.rest)
           ELSE IF top.cls = "BuiltInFunctionToken"
             THEN LET args == ConvertArguments(postfix, n - 1,
                                               NumArguments(func_name))
                  IN  IF NumArguments(func_name) < 0
                        THEN Failed("BigqueryInvalidQueryError")
                      ELSE IF args.error # "none" THEN args
                      ELSE Popped(CallText(func_name, args.value), args.rest)
           ELSE IF top.cls = "AggregationFunctionToken"
             THEN LET ops == ConvertArguments(postfix, n - 1, top.num_args)
                  IN  IF ops.error # "none" THEN ops
                      ELSE IF func_name = DISTINCTCOUNT
                        THEN Popped(CallText(<<"C", "O", "U", "N", "T">>,
                                      [ops.value EXCEPT
                                         ![1] = <<"D", "I", "S", "T", "I",
                                             "N", "C", "T", " ">>
                                             \o @]), ops.rest)
                      ELSE Popped(CallText(func_name, ops.value), ops.rest)
           ELSE Popped(top.text, n - 1)

\* ToInfix
ToInfix(stack) ==
  LET infix == ConvertStack(stack, Len(stack))
  IN  IF infix.error # "none" THEN Raised(infix.error)
      ELSE IF infix.rest # 0 THEN Raised("BigqueryInvalidQueryError")
      ELSE Returned(infix.value)

\* GetSingleValue: start_idx and the postfix expression of the topmost
\* value of the stack.
GetSingleValue(stack) ==
  LET converted == ConvertStack(stack, Len(stack))
  IN  IF converted.error # "none" THEN converted
      ELSE Popped(SubSeq(stack, converted.rest + 1, Len(stack)),
                  converted.rest)

(***************************************************************************)
(* query_interpreter.py: Evaluate.  A Python value is a record of its type *)
(* and its data; of a float, the data is the str of it.  The operators and *)
(* functions are defined on the values the expressions here give them;     *)
(* "NotModelled" marks the others.                                         *)
(***************************************************************************)

PyInt(n) == [type |-> "int", data |-> n]
PyFloat(text) == [type |-> "float", data |-> text]
PyBool(b) == [type |-> "bool", data |-> b]
PyNone == [type |-> "NoneType", data |-> 0]

\* _UNARY_OPERATORS[operator](a)
ApplyUnaryOperator(operator, a) ==
  IF operator = <<"n", "o", "t">>
      /\ a.type = "bool" THEN Returned(PyBool(~a.data))
  ELSE IF operator = <<"~">> /\ a.type = "int" THEN Returned(PyInt(-a.data - 1))
  ELSE IF operator = <<"~">> /\ a.type = "str" THEN Raised("TypeError")
  ELSE Raised("NotModelled")

\* _BINARY_OPERATORS[operator](a, b); Resolve turns a ZeroDivisionError
\* into a BigqueryInvalidQueryError.
ApplyBinaryOperator(operator, a, b) ==
  IF a.type = "int" /\ b.type = "int"
    THEN IF operator = <<"+">> THEN Returned(PyInt(a.data + b.data))
         ELSE IF operator = <<"-">> THEN Returned(PyInt(a.data - b.data))
         ELSE IF operator = <<"*">> THEN Returned(PyInt(a.data * b.data))
         ELSE IF operator \in {<<"/">>, <<"%">>} /\ b.data = 0
           THEN Raised("BigqueryInvalidQueryError")
         ELSE Raised("NotModelled")
  ELSE IF a.type = "str" /\ b.type = "str"
    THEN IF operator = <<"+">> THEN Returned(Str(a.data \o b.data))
         ELSE IF operator \in {<<"-">>, <<"*">>, <<"/">>, <<"%">>
             } THEN Raised("TypeError")
         ELSE Raised("NotModelled")
  ELSE IF {a.type, b.type} = {"int", "str"} /\ operator \in {<<"+">>, <<"-">>, <<
      "/">>}
    THEN Raised("TypeError")
  ELSE IF a.type = "bool" /\ b.type = "bool" /\ operator = <<"i", "s">>
    THEN Returned(PyBool(a.data = b.data))
  ELSE Raised("NotModelled")

\* The value of the built-in function func_name for the arguments args.
ApplyFunction(func_name, args) ==
  IF func_name = <<"p", "i">> THEN Returned(PyFloat(<<"3", ".", "1", "4", "1",
      "5", "9", "2", "6", "5", "3", "5", "9">>))
  ELSE IF func_name = <<"a", "b", "s">>
    THEN IF args[1].type = "int"
           THEN Returned(PyInt(IF args[1].data < 0 THEN -args[1].data
                               ELSE args[1].data))
         ELSE IF args[1].type \in {"str", "NoneType"} THEN Raised("TypeError")
         ELSE Raised("NotModelled")
  ELSE IF func_name = <<"l", "e", "n", "g", "t", "h">>
    THEN IF args[1].type = "str" THEN Returned(PyInt(Len(args[1].data)))
         ELSE Raised("TypeError")
  ELSE IF func_name = <<"l", "o", "w", "e", "r">>
    THEN IF args[1].type = "str" THEN Returned(Str(LowerStr(args[1].data)))
         ELSE Raised("AttributeError")
  ELSE IF func_name = <<"p", "o", "w">>
    THEN IF args[1].type = "int" /\ args[2].type = "int" /\ args[2].data >= 0
           THEN Returned(PyInt(IF args[2].data = 0 THEN 1 ELSE args[1].data ^ args[2].data))
         ELSE IF {"str", "NoneType"} \cap {args[1].type, args[2].type} # {}
           THEN Raised("TypeError")
         ELSE Raised("NotModelled")
  ELSE IF func_name = <<"i", "f">> THEN Returned(args[2])
  ELSE IF func_name = <<"l", "e", "f", "t">>
    THEN IF args[1].type = "str" /\ args[2].type = "int" /\ args[2].data >= 0
           THEN Returned(Str(SubSeq(args[1].data, 1,
                                    IF args[2].data < Len(args[1].data)
                                      THEN args[2].data
                                      ELSE Len(args[1].data))))
         ELSE IF args[1].type \in {"int", "NoneType"} THEN Raised("TypeError")
         ELSE Raised("NotModelled")
  ELSE IF func_name = <<"s", "u", "b", "s", "t", "r">>
    THEN IF /\ args[1].type = "str"
            /\ args[2].type = "int" /\ args[2].data >= 0
            /\ args[3].type = "int" /\ args[3].data >= 0
           THEN Returned(Str(SubSeq(args[1].data, args[2].data + 1,
                                    IF Len(args[1].data)
                                         < args[2].data + args[3].data
                                      THEN Len(args[1].data)
                                      ELSE args[2].data + args[3].data)))
         ELSE IF args[1].type \in {"int", "NoneType"} THEN Raised("TypeError")
         ELSE Raised("NotModelled")
  ELSE Raised("NotModelled")

\* The int that str(n) was made of.
IntOfStr(text) ==
  LET negative == text[1] = "-"
      digits == IF negative THEN Tail(text) ELSE text
      value[k \in 0..Len(digits)] ==
        IF k = 0 THEN 0 ELSE 10 * value[k - 1] + Ord(digits[k]) - 48
  IN  IF negative THEN -value[Len(digits)] ELSE value[Len(digits)]

\* The value of a token that is no operator, no function and no field.
TokenValue(top) ==
  IF top.cls = "StringLiteralToken" THEN Str(LiteralValue(top))
  ELSE IF top.cls = "LiteralToken"
    THEN IF LowerStr(top.text) = <<"n", "u", "l", "l">> THEN PyNone
         ELSE PyBool(LowerStr(top.text) = <<"t", "r", "u", "e">>)
  ELSE IF top.cls = "int"
    THEN PyInt(IntOfStr(top.text))
  ELSE IF top.cls = "float" THEN PyFloat(top.text)
  ELSE Str(top.text)

\* Resolve of Evaluate on stack[1..n], and `count` calls of it in a row.
RECURSIVE Resolve(_, _), ResolveArguments(_, _, _)
ResolveArguments(stack, n, count) ==
  IF count <= 0 THEN Popped(<<>>, n)
  ELSE With(Resolve(stack, n), LAMBDA last :
         IF last.error # "none" THEN last
         ELSE With(ResolveArguments(stack, last.rest, count - 1),
                   LAMBDA others :
                     IF others.error # "none" THEN others
                     ELSE Popped(Append(others.value, last.value),
                                 others.rest)))

Resolve(stack, n) ==
  LET top == stack[n]
      func_name == top.text
      num_args == IF top.cls = "OperatorToken" THEN top.num_args
                  ELSE NumArguments(func_name)
  IN  IF n = 0 THEN Failed("BigqueryInvalidQueryError")
      ELSE IF top.cls \in {"OperatorToken", "BuiltInFunctionToken"}
        THEN IF num_args < 0 THEN Failed("BigqueryInvalidQueryError")
             ELSE With(ResolveArguments(stack, n - 1, num_args), LAMBDA args :
                    IF args.error # "none" THEN args
                    ELSE IF /\ top.cls = "OperatorToken"
                            /\ \E i \in 1..Len(args.value) :
                                 args.value[i].type = "NoneType"
                      THEN Popped(PyNone, args.rest)
                    ELSE With(IF top.cls = "BuiltInFunctionToken"
                                THEN ApplyFunction(func_name, args.value)
                              ELSE IF top.num_args = 1
                                THEN ApplyUnaryOperator(top.text,
                                                        args.value[1])
                              ELSE ApplyBinaryOperator(top.text,
                                                       args.value[1],
                                                       args.value[2]),
                              LAMBDA result :
                                IF result.error # "none"
                                  THEN Failed(result.error)
                                  ELSE Popped(result.value, args.rest)))
      ELSE IF top.cls \in FieldTokenClasses
        THEN Failed("BigqueryInvalidQueryError")
      ELSE Popped(TokenValue(top), n - 1)

\* Evaluate
Evaluate(stack) ==
  With(Resolve(stack, Len(stack)), LAMBDA result :
    IF result.error # "none" THEN Raised(result.error)
    ELSE IF result.rest # 0 THEN Raised("BigqueryInvalidQueryError")
    ELSE Returned(result.value))

(***************************************************************************)
(* query_interpreter.py: CheckValidSumAverageArgument and ExpandExpression *)
(* for the argument of SUM and AVG.  A Python float is here not-a-number,  *)
(* an infinity or the rational (-1)^neg * n / d with the sign of a zero    *)
(* kept; the expressions have the constants 0, 1 and 2, so that products   *)
(* and quotients are exact in binary floating point.                       *)
(***************************************************************************)

\* The first error of a list of results, and their values.
FirstError(results) ==
  IF \E k \in 1..Len(results) : results[k].error # "none"
    THEN results[CHOOSE k \in 1..Len(results) :
                   /\ results[k].error # "none"
                   /\ \A j \in 1..(k - 1) : results[j].error = "none"].error
    ELSE "none"
Values(results) == [k \in 1..Len(results) |-> results[k].value]

\* The tokens of all the stacks, in their order.
RECURSIVE AllTokens(_)
AllTokens(stacks) ==
  IF Len(stacks) = 0 THEN <<>> ELSE Head(stacks) \o AllTokens(Tail(stacks))

\* The digits, and str.isalpha() of an ASCII character
DigitChars == {"0", "1", "2", "3", "4", "5", "6", "7", "8", "9"}
IsAlphaChar(c) ==
  With(Ord(c), LAMBDA code :
    \/ code >= 65 /\ code <= 90
    \/ code >= 97 /\ code <= 122)

\* OperatorToken(symbol, 2) for a symbol without letters
ArithmeticToken(symbol) == Token("OperatorToken", symbol, 2, NoneValue)

RECURSIVE GcdOf(_, _)
GcdOf(a, b) == IF b = 0 THEN a ELSE GcdOf(b, a % b)

FloatNaN == [kind |-> "nan", neg |-> FALSE, n |-> 0, d |-> 1]
FloatInf(neg) == [kind |-> "inf", neg |-> neg, n |-> 0, d |-> 1]
FloatNum(neg, n, d) ==
  [kind |-> "num", neg |-> neg, n |-> n \div GcdOf(n, d),
   d |-> d \div GcdOf(n, d)]
FloatOfInt(i) == IF i < 0 THEN FloatNum(TRUE, -i, 1) ELSE FloatNum(FALSE, i, 1)
FloatIsZero(x) == x.kind = "num" /\ x.n = 0

\* x * y, x + y, x - y and x / y of floats (y is not zero in x / y)
FloatMul(x, y) ==
  IF x.kind = "nan" \/ y.kind = "nan" THEN FloatNaN
  ELSE IF x.kind = "inf" \/ y.kind = "inf"
    THEN IF FloatIsZero(x) \/ FloatIsZero(y) THEN FloatNaN
         ELSE FloatInf(x.neg # y.neg)
  ELSE FloatNum(x.neg # y.neg, x.n * y.n, x.d * y.d)
FloatAdd(x, y) ==
  IF x.kind = "nan" \/ y.kind = "nan" THEN FloatNaN
  ELSE IF x.kind = "inf"
    THEN IF y.kind = "inf" /\ x.neg # y.neg THEN FloatNaN ELSE x
  ELSE IF y.kind = "inf" THEN y
  ELSE LET sum == (IF x.neg THEN -1 ELSE 1) * x.n * y.d
                  + (IF y.neg THEN -1 ELSE 1) * y.n * x.d
       IN  IF sum = 0 THEN FloatNum(x.neg /\ y.neg, 0, 1)
           ELSE IF sum < 0 THEN FloatNum(TRUE, -sum, x.d * y.d)
           ELSE FloatNum(FALSE, sum, x.d * y.d)
FloatSub(x, y) == FloatAdd(x, [y EXCEPT !.neg = ~@])
FloatDiv(x, y) ==
  IF x.kind = "nan" \/ y.kind = "nan" THEN FloatNaN
  ELSE IF x.kind = "inf"
    THEN IF y.kind = "inf" THEN FloatNaN ELSE FloatInf(x.neg # y.neg)
  ELSE IF y.kind = "inf" THEN FloatNum(x.neg # y.neg, 0, 1)
  ELSE FloatNum(x.neg # y.neg, x.n * y.d, x.d * y.n)

\* str() of a float whose digits are few
RECURSIVE FractionDigits(_, _, _)
FractionDigits(r, d, count) ==
  IF r = 0 \/ count = 0 THEN <<>>
  ELSE StrOfNat((10 * r) \div d) \o FractionDigits((10 * r) % d, d, count - 1)
StrOfFloat(x) ==
  IF x.kind = "nan" THEN <<"n", "a", "n">>
  ELSE (IF x.neg THEN <<"-">> ELSE <<>>)
       \o IF x.kind = "inf" THEN <<"i", "n", "f">>
          ELSE StrOfNat(x.n \div x.d) \o <<".">>
               \o IF x.n % x.d = 0 THEN <<"0">>
                  ELSE FractionDigits(x.n % x.d, x.d, 12)

\* Whether float(text) returns, for a text without white space around it.
IsDigits(s) == Len(s) > 0 /\ \A i \in 1..Len(s) : s[i] \in DigitChars
WithoutSign(s) == IF Len(s) > 0 /\ s[1] \in {"+", "-"} THEN Tail(s) ELSE s
IsDecimalText(s) ==
  With(Split(s, <<".">>), LAMBDA parts :
    /\ Len(parts) <= 2
    /\ \A k \in 1..Len(parts) : parts[k] = <<>> \/ IsDigits(parts[k])
    /\ \E k \in 1..Len(parts) : parts[k] # <<>>)
FloatWords ==
  {<<"n", "a", "n">>,
   <<"i", "n", "f">>,
   <<"i", "n", "f", "i", "n", "i", "t", "y">>}
IsFloatText(text) ==
  With(LowerStr(WithoutSign(text)), LAMBDA body :
    \/ body \in FloatWords
    \/ With(Split(body, <<"e">>), LAMBDA parts :
         /\ IsDecimalText(parts[1])
         /\ Len(parts) <= 2
         /\ Len(parts) = 2 => IsDigits(WithoutSign(parts[2]))))

\* IsFloat
IsFloat(expr) == expr.cls \in {"int", "float"} \/ IsFloatText(expr.text)

\* float(top) for a top with IsFloat(top), without an exponent
PowerOfTen(places) ==
  LET Pow10[k \in 0..places] == IF k = 0 THEN 1 ELSE 10 * Pow10[k - 1]
  IN  Pow10[places]
FloatOf(top) ==
  With(LowerStr(WithoutSign(top.text)), LAMBDA body :
    IF body = <<"n", "a", "n">> THEN FloatNaN
    ELSE IF body \in FloatWords THEN FloatInf(top.text[1] = "-")
    ELSE With(Split(body, <<".">>), LAMBDA parts :
           FloatNum(top.text[1] = "-", IntOfStr(Join(<<>>, parts)),
                    PowerOfTen(Len(parts[Len(parts)]) * (Len(parts) - 1)))))

\* A float of the stack
FloatToken(x) == Token("float", StrOfFloat(x), 0, NoneValue)

FUNCTION_PREFIX == DISTINCT_STRING \o <<"F", "U", "N", "C", "T", "I", "O",
    "N", "_">>
BIGQUERY_CONSTANTS ==
  {<<"n", "u", "l", "l">>,
   <<"t", "r", "u", "e">>,
   <<"f", "a", "l", "s", "e">>}
BIGQUERY_KEYWORDS ==
  {<<"n", "o", "t">>,
   <<"a", "n", "d">>,
   <<"o", "r">>,
   <<"i", "s">>,
   <<"c", "o", "n", "t", "a", "i", "n", "s">>}

\* IsLabel
IsLabel(expr) ==
  /\ expr.cls \notin {"int", "float"}
  /\ Len(expr.text) > 0
  /\ ~StartsWith(expr.text, FUNCTION_PREFIX)
  /\ ~(StartsWith(expr.text, UNENCRYPTED_ALIAS_PREFIX)
       /\ EndsWith(expr.text, <<"_">>))
  /\ LowerStr(expr.text) \notin BIGQUERY_CONSTANTS \cup BIGQUERY_KEYWORDS
  /\ \A k \in 1..Len(expr.text) :
       \/ IsAlphaChar(expr.text[k])
       \/ k > 1 /\ expr.text[k] \in DigitChars \cup {"_", "."}

\* What CheckValidSumAverageArgument gives: an error, or the list of the
\* postfix expressions, the two taints and the stack it leaves.
SumArgument(list_fields, has_encrypted, has_field, rest) ==
  [error |-> "none", list_fields |-> list_fields,
   has_encrypted |-> has_encrypted, has_field |-> has_field, rest |-> rest]
NoSumArgument(error) ==
  [error |-> error, list_fields |-> <<>>, has_encrypted |-> FALSE,
   has_field |-> FALSE, rest |-> <<>>]

\* The branches of CheckValidSumAverageArgument for top in + - * /
SumOfArguments(symbol, op1, op2) ==
  SumArgument(
    op1.list_fields
    \o [k \in 1..Len(op2.list_fields) |->
          IF symbol = <<"-">>
            THEN op2.list_fields[k] \o <<IntToken(-1), ArithmeticToken(<<"*">>)>>
            ELSE op2.list_fields[k]],
    op1.has_encrypted \/ op2.has_encrypted,
    op1.has_field \/ op2.has_field, op1.rest)
ProductOfArguments(op1, op2) ==
  IF \/ op1.has_encrypted /\ (op2.has_encrypted \/ op2.has_field)
     \/ op2.has_encrypted /\ (op1.has_encrypted \/ op1.has_field)
    THEN NoSumArgument("BigqueryInvalidQueryError")
  ELSE LET count == Len(op2.list_fields)
       IN  SumArgument(
             [k \in 1..(Len(op1.list_fields) * count) |->
                op1.list_fields[((k - 1) \div count) + 1]
                \o op2.list_fields[((k - 1) % count) + 1]
                \o <<ArithmeticToken(<<"*">>)>>],
             op1.has_encrypted \/ op2.has_encrypted,
             op1.has_field \/ op2.has_field, op1.rest)
QuotientOfArguments(op1, op2) ==
  IF op2.has_encrypted \/ (op1.has_encrypted /\ op2.has_field)
    THEN NoSumArgument("BigqueryInvalidQueryError")
  ELSE LET append_divisor ==
             AllTokens(op2.list_fields)
             \o [k \in 1..(Len(op2.list_fields) - 1) |->
                   ArithmeticToken(<<"+">>)]
             \o <<ArithmeticToken(<<"/">>)>>
       IN  SumArgument(
             [k \in 1..Len(op1.list_fields) |->
                op1.list_fields[k] \o append_divisor],
             op1.has_encrypted, op1.has_field \/ op2.has_field, op1.rest)

\* CheckValidSumAverageArgument
RECURSIVE CheckValidSumAverageArgument(_)
CheckValidSumAverageArgument(stack) ==
  LET top == stack[Len(stack)]
      popped == SubSeq(stack, 1, Len(stack) - 1)
  IN  IF Len(stack) = 0 THEN NoSumArgument("IndexError")
      ELSE IF \/ top.cls = "OperatorToken" /\ top.num_args = 1
              \/ top.cls \in {"BuiltInFunctionToken",
                              "AggregationFunctionToken",
                              "LiteralToken", "StringLiteralToken"}
        THEN NoSumArgument("BigqueryInvalidQueryError")
      ELSE IF top.text \in {<<"+">>, <<"-">>, <<"*">>, <<"/">>}
        THEN
          With(CheckValidSumAverageArgument(popped), LAMBDA op2 :
            IF op2.error # "none" THEN op2
            ELSE
              With(CheckValidSumAverageArgument(op2.rest), LAMBDA op1 :
                IF op1.error # "none" THEN op1
                ELSE IF top.text = <<"*">> THEN ProductOfArguments(op1, op2)
                ELSE IF top.text = <<"/">> THEN QuotientOfArguments(op1, op2)
                ELSE SumOfArguments(top.text, op1, op2)))
      ELSE IF top.cls \in {"PseudonymToken", "SearchwordsToken",
                           "ProbabilisticToken"}
        THEN NoSumArgument("BigqueryInvalidQueryError")
      ELSE SumArgument(
             <<<<top>>>>,
             top.cls \in {"HomomorphicIntToken", "HomomorphicFloatToken"},
             ~IsFloat(top), popped)

\* What _ExpandExpression gives: an error, or the pairs of a factor and a
\* field, the constant and the stack it leaves.
Expanded(pairs, constant, rest) ==
  [error |-> "none", pairs |-> pairs, constant |-> constant, rest |-> rest]
NotExpanded(error) ==
  [error |-> error, pairs |-> <<>>, constant |-> FloatNaN, rest |-> <<>>]
Pair(factor, field) == [factor |-> factor, field |-> field]

\* The loop of _ExpandExpression for + and - over the pairs of op2 from
\* the i-th on.
RECURSIVE AddedPairs(_, _, _, _)
AddedPairs(symbol, list_fields, pairs, i) ==
  IF i > Len(pairs) THEN list_fields
  ELSE
    LET token == pairs[i]
        same == {k \in 1..Len(list_fields) :
                   list_fields[k].field.text = token.field.text}
        first == CHOOSE k \in same : \A j \in same : k <= j
    IN  AddedPairs(
          symbol,
          IF same # {}
            THEN [list_fields EXCEPT
                    ![first].factor =
                      IF symbol = <<"+">> THEN FloatAdd(@, token.factor)
                      ELSE FloatSub(@, token.factor)]
          ELSE Append(list_fields,
                      IF symbol = <<"-">>
                        THEN Pair(FloatMul(token.factor, FloatOfInt(-1)),
                                  token.field)
                        ELSE token),
          pairs, i + 1)

\* The branches of _ExpandExpression for top in + - * /
ExpandedSum(symbol, op1, op2) ==
  Expanded(AddedPairs(symbol, op1.pairs, op2.pairs, 1),
           IF symbol = <<"+">> THEN FloatAdd(op1.constant, op2.constant)
           ELSE FloatSub(op1.constant, op2.constant),
           op1.rest)
ExpandedProduct(op1, op2) ==
  IF Len(op1.pairs) > 0 /\ Len(op2.pairs) > 0
    THEN NotExpanded("BigqueryInvalidQueryError")
  ELSE LET list_fields == op1.pairs \o op2.pairs
           by == IF Len(op1.pairs) = 0 THEN op1.constant ELSE op2.constant
       IN  Expanded(
             [k \in 1..Len(list_fields) |->
                Pair(FloatMul(list_fields[k].factor, by),
                     list_fields[k].field)],
             FloatMul(op1.constant, op2.constant), op1.rest)
ExpandedQuotient(op1, op2) ==
  IF Len(op2.pairs) > 0 THEN NotExpanded("BigqueryInvalidQueryError")
  ELSE IF FloatIsZero(op2.constant)
    THEN NotExpanded("BigqueryInvalidQueryError")
  ELSE Expanded(
         [k \in 1..Len(op1.pairs) |->
            Pair(FloatDiv(op1.pairs[k].factor, op2.constant),
                 op1.pairs[k].field)],
         FloatDiv(op1.constant, op2.constant), op1.rest)

\* _ExpandExpression
RECURSIVE ExpandExpression_(_)
ExpandExpression_(stack) ==
  LET top == stack[Len(stack)]
      popped == SubSeq(stack, 1, Len(stack) - 1)
  IN  IF Len(stack) = 0 THEN NotExpanded("IndexError")
      ELSE IF \/ top.cls = "OperatorToken" /\ top.num_args = 1
              \/ top.cls \in {"BuiltInFunctionToken",
                              "AggregationFunctionToken",
                              "LiteralToken", "StringLiteralToken"}
        THEN NotExpanded("BigqueryInvalidQueryError")
      ELSE IF top.text \in {<<"+">>, <<"-">>, <<"*">>, <<"/">>}
        THEN
          With(ExpandExpression_(popped), LAMBDA op2 :
            IF op2.error # "none" THEN op2
            ELSE
              With(ExpandExpression_(op2.rest), LAMBDA op1 :
                IF op1.error # "none" THEN op1
                ELSE IF top.text = <<"*">> THEN ExpandedProduct(op1, op2)
                ELSE IF top.text = <<"/">> THEN ExpandedQuotient(op1, op2)
                ELSE ExpandedSum(top.text, op1, op2)))
      ELSE IF IsFloat(top) THEN Expanded(<<>>, FloatOf(top), popped)
      ELSE IF top.cls \in {"PseudonymToken", "SearchwordsToken",
                           "ProbabilisticToken"}
        THEN NotExpanded("BigqueryInvalidQueryError")
      ELSE Expanded(<<Pair(FloatOfInt(1), top)>>, FloatOfInt(0), popped)

\* ExpandExpression
ExpandExpression(stack) ==
  IF ~IsEncryptedExpression(stack)
    THEN With(ToInfix(stack), LAMBDA infix :
           IF infix.error # "none" THEN NotExpanded(infix.error)
           ELSE Expanded(<<Pair(FloatOfInt(1), PlainStr(infix.value))>>,
                         FloatOfInt(0), <<>>))
  ELSE ExpandExpression_(stack)

\* The text of self.nsquare of a clause: the square of the modulus of the
\* homomorphic cipher of the table, here of the modulus 15.
NSquareText == StrOfNat(15 * 15)

\* A query for the number of the rows of the field in the place of the sum
\* of its ciphertexts.
ConstructPaillierSumQuery_CountOfRows(field, nsquare) ==
  AggregationQueryToken(<<"C", "O", "U", "N", "T", "(">> \o field.text \o <<
      ")">>)

\* ConstructPaillierSumQuery
ConstructPaillierSumQuery(field, nsquare) ==
  AggregationQueryToken(
    PAILLIER_SUM_PREFIX \o field.text \o <<")", ",", " ", "'">> \o nsquare \o <<
        "'", ")", ")", ")">>)

\* The tokens _CollapseAggregations puts for one expression of list_fields
\* after ExpandExpression.
TokensOfExpanded(expression, representative_label, nsquare) ==
  <<FloatToken(expression.constant),
    AggregationQueryToken(<<"C", "O", "U", "N", "T", "(">>
        \o representative_label \o <<")">>),
    ArithmeticToken(<<"*">>)>>
  \o AllTokens(
       [k \in 1..Len(expression.pairs) |->
          <<FloatToken(expression.pairs[k].factor),
            IF expression.pairs[k].field.cls
                 \in {"HomomorphicFloatToken", "HomomorphicIntToken"}
              THEN ConstructPaillierSumQuery(expression.pairs[k].field,
                                             nsquare)
              ELSE AggregationQueryToken(
                     <<"S", "U", "M", "(">> \o expression.pairs[k].field.text \o <<
                         ")">>),
            ArithmeticToken(<<"*">>)>>])
  \o [k \in 1..Len(expression.pairs) |-> ArithmeticToken(<<"+">>)]

\* The loops of _CollapseAggregations for the representative label: the
\* first label of the expressions, or ''.
RepresentativeLabel(tokens) ==
  With({k \in 1..Len(tokens) : IsLabel(tokens[k])}, LAMBDA labels :
    IF labels = {} THEN <<>>
    ELSE tokens[CHOOSE k \in labels : \A j \in labels : k <= j].text)

\* The branch of _CollapseAggregations for AVG and SUM of an encrypted
\* postfix_expr: the tokens that replace the aggregation.
SumAverageTokens(function_type, postfix_expr, nsquare) ==
  With(CheckValidSumAverageArgument(postfix_expr), LAMBDA checked :
    IF checked.error # "none" THEN Raised(checked.error)
    ELSE
      With(RepresentativeLabel(AllTokens(checked.list_fields)),
           LAMBDA representative_label :
        With([k \in 1..Len(checked.list_fields) |->
                ExpandExpression(checked.list_fields[k])],
             LAMBDA expressions :
          With(FirstError(expressions), LAMBDA error :
            IF error # "none" THEN Raised(error)
            ELSE Returned(
                   AllTokens(
                     [k \in 1..Len(expressions) |->
                        TokensOfExpanded(expressions[k],
                                         representative_label, nsquare)])
                   \o [k \in 1..(Len(expressions) - 1) |->
                         ArithmeticToken(<<"+">>)]
                   \o IF function_type = <<"A", "V", "G">>
                        THEN <<AggregationQueryToken(
                                 <<"C", "O", "U", "N", "T", "(">>
                                     \o representative_label \o <<")">>),
                               ArithmeticToken(<<"/">>)>>
                        ELSE <<>>)))))

(***************************************************************************)
(* query_lib.py: the collapse of functions and aggregations.               *)
(***************************************************************************)

\* The token _CollapseFunctions puts for the value Evaluate returned.
ResultToken(result) ==
  IF result.type = "str"
    THEN StringLiteralToken(<<"\"">> \o result.data \o <<"\"">>)
  ELSE IF result.type = "NoneType" THEN LiteralToken(<<"N", "U", "L", "L">>)
  ELSE IF result.type = "bool"
    THEN LiteralToken(IF result.data THEN <<"t", "r", "u", "e">> ELSE <<"f",
        "a", "l", "s", "e">>)
  ELSE IF result.type = "int" THEN IntToken(result.data)
  ELSE Token("float", result.data, 0, NoneValue)

\* What a collapse gives: an error, or whether it found a token to
\* collapse and the stack after it.
Collapsed(found, stack) == [error |-> "none", found |-> found, stack |-> stack]
NotCollapsed(error) == [error |-> error, found |-> FALSE, stack |-> <<>>]

\* stack[start_idx:i+1] = tokens, for the i-th token of the stack
Spliced(stack, start_idx, i, tokens) ==
  SubSeq(stack, 1, start_idx) \o tokens \o SubSeq(stack, i + 1, Len(stack))

\* _CollapseFunctions without its check of the arguments of the function
\* for encrypted fields.
CollapseFunctions_Unchecked(stack) ==
  LET functions ==
        {i \in 1..Len(stack) : stack[i].cls = "BuiltInFunctionToken"}
      i == CHOOSE f \in functions : \A g \in functions : f <= g
  IN  IF functions = {} THEN Collapsed(FALSE, stack)
      ELSE With(GetSingleValue(SubSeq(stack, 1, i)), LAMBDA single :
             IF single.error # "none" THEN NotCollapsed(single.error)
             ELSE With(Evaluate(single.value), LAMBDA result :
                    IF result.error
                         \notin {"none", "BigqueryInvalidQueryError"}
                      THEN NotCollapsed(result.error)
                    ELSE Collapsed(
                           TRUE,
                           Spliced(stack, single.rest, i,
                                   <<IF result.error = "none"
                                       THEN ResultToken(result.value)
                                       ELSE FieldToken(
                                              ToInfix(single.value).value)>>))))

\* _CollapseFunctions
CollapseFunctions(stack) ==
  LET functions ==
        {i \in 1..Len(stack) : stack[i].cls = "BuiltInFunctionToken"}
      i == CHOOSE f \in functions : \A g \in functions : f <= g
  IN  IF functions = {} THEN Collapsed(FALSE, stack)
      ELSE With(GetSingleValue(SubSeq(stack, 1, i)), LAMBDA single :
             \* start_idx is single.rest and postfix_expr single.value
             IF single.error # "none" THEN NotCollapsed(single.error)
             ELSE IF IsEncryptedExpression(single.value)
               THEN NotCollapsed("BigqueryInvalidQueryError")
             ELSE With(Evaluate(single.value), LAMBDA result :
                    IF result.error
                         \notin {"none", "BigqueryInvalidQueryError"}
                      THEN NotCollapsed(result.error)
                    ELSE Collapsed(
                           TRUE,
                           Spliced(stack, single.rest, i,
                                   <<IF result.error = "none"
                                       THEN ResultToken(result.value)
                                       ELSE FieldToken(
                                              ToInfix(single.value).value)>>))))

\* while _CollapseFunctions(postfix_expr): pass
RECURSIVE CollapseAllFunctions(_)
CollapseAllFunctions(postfix_expr) ==
  With(CollapseFunctions(postfix_expr), LAMBDA collapsed :
    IF collapsed.error # "none" \/ ~collapsed.found THEN collapsed
    ELSE CollapseAllFunctions(collapsed.stack))

\* The loop of _CollapseAggregations over the arguments of the aggregation:
\* `count` arguments are taken from stack[:start_idx], the last one first.
RECURSIVE CollectArguments(_, _, _)
CollectArguments(stack, start_idx, count) ==
  LET Error(error) ==
        [error |-> error, postfix_exprs |-> <<>>, infix_exprs |-> <<>>,
         start_idx |-> 0, is_encrypted |-> FALSE]
  IN  IF count <= 0
        THEN [error |-> "none", postfix_exprs |-> <<>>, infix_exprs |-> <<>>,
              start_idx |-> start_idx, is_encrypted |-> FALSE]
      ELSE
        With(GetSingleValue(SubSeq(stack, 1, start_idx)), LAMBDA single :
          IF single.error # "none" THEN Error(single.error)
          ELSE
            With(CollapseAllFunctions(single.value), LAMBDA collapsed :
              IF collapsed.error # "none" THEN Error(collapsed.error)
              ELSE
                With(ToInfix(collapsed.stack), LAMBDA infix :
                  IF infix.error # "none" THEN Error(infix.error)
                  ELSE
                    With(CollectArguments(stack, single.rest, count - 1),
                         LAMBDA others :
                           IF others.error # "none" THEN others
                           ELSE [error |-> "none",
                                 postfix_exprs |->
                                   <<collapsed.stack>>
                                   \o others.postfix_exprs,
                                 infix_exprs |->
                                   <<infix.value>> \o others.infix_exprs,
                                 start_idx |-> others.start_idx,
                                 is_encrypted |->
                                   \/ IsEncryptedExpression(single.value)
                                   \/ others.is_encrypted]))))

\* The check of _CollapseAggregations for nested aggregations: whether a
\* token of the arguments is a PAILLIER_SUM or a GROUP_CONCAT of an
\* encrypted field.
IllegalNestedAggregation(token) ==
  /\ token.cls = "AggregationQueryToken"
  /\ \/ StartsWith(token.text, PAILLIER_SUM_PREFIX)
     \/ /\ StartsWith(token.text, GROUP_CONCAT_PREFIX)
        /\ LET after == Split(token.text, GROUP_CONCAT_PREFIX)[2]
               fieldname == SubSeq(after, 1, Len(after) - 1)
           IN  IsEncrypted(PlainStr(fieldname))

\* list.reverse()
Reverse(list) == [i \in 1..Len(list) |-> list[Len(list) + 1 - i]]

\* _CollapseAggregations
CollapseAggregations(stack) ==
  LET aggregations ==
        {i \in 1..Len(stack) : stack[i].cls = "AggregationFunctionToken"}
      i == CHOOSE f \in aggregations : \A g \in aggregations : f <= g
      function_type == stack[i].text
      distinct == function_type = DISTINCTCOUNT
      over_encrypted ==
        {<<"C", "O", "U", "N", "T">>, DISTINCTCOUNT,
         <<"T", "O", "P">>,
         <<"G", "R", "O", "U", "P", "_", "C", "O", "N", "C", "A", "T">>}
  IN  IF aggregations = {} THEN Collapsed(FALSE, stack)
      ELSE
        With(CollectArguments(stack, i - 1, stack[i].num_args),
             LAMBDA arguments :
          IF arguments.error # "none" THEN NotCollapsed(arguments.error)
          ELSE IF \E e \in 1..Len(arguments.postfix_exprs) :
                    \E t \in 1..Len(arguments.postfix_exprs[e]) :
                      IllegalNestedAggregation(arguments.postfix_exprs[e][t])
            THEN NotCollapsed("BigqueryInvalidQueryError")
          ELSE IF /\ function_type \in {DISTINCTCOUNT, <<"T", "O", "P">>}
                  /\ IsDeterministicExpression(arguments.postfix_exprs[1])
            THEN NotCollapsed("BigqueryInvalidQueryError")
          ELSE IF function_type \in {<<"A", "V", "G">>, <<"S", "U", "M">>
              } /\ arguments.is_encrypted
            THEN
              \* postfix_expr is the argument that was collected last
              With(SumAverageTokens(
                     function_type,
                     arguments.postfix_exprs[Len(arguments.postfix_exprs)],
                     NSquareText),
                   LAMBDA rewritten_infix_expr :
                     IF rewritten_infix_expr.error # "none"
                       THEN NotCollapsed(rewritten_infix_expr.error)
                     ELSE Collapsed(
                            TRUE,
                            Spliced(stack, arguments.start_idx, i,
                                    rewritten_infix_expr.value)))
          ELSE IF function_type \notin over_encrypted /\ arguments.is_encrypted
            THEN NotCollapsed("BigqueryInvalidQueryError")
          ELSE
            With(Reverse(arguments.infix_exprs), LAMBDA infix_exprs :
              Collapsed(
                TRUE,
                Spliced(
                  stack, arguments.start_idx, i,
                  <<AggregationQueryToken(
                      CallText(IF distinct THEN <<"C", "O", "U", "N", "T">>
                          ELSE function_type,
                               IF distinct
                                 THEN [infix_exprs EXCEPT
                                         ![1] = <<"D", "I", "S", "T", "I",
                                             "N", "C", "T", " ">> \o @]
                                 ELSE infix_exprs))>>))))

\* _RewriteAggregations for one expression:
\* while _CollapseAggregations(temp_expression, nsquare): pass
RECURSIVE RewriteAggregations(_)
RewriteAggregations(expression) ==
  With(CollapseAggregations(expression), LAMBDA collapsed :
    IF collapsed.error # "none" \/ ~collapsed.found THEN collapsed
    ELSE RewriteAggregations(collapsed.stack))

\* _ReplaceAlias for a list of one expression (WHERE, HAVING, GROUP BY) and
\* for a query without AS: no alias_index is less than the index of the
\* expression, and every token stays.
ReplaceAlias(expression) == expression

\* alias.keys()[alias.values().index(token)]: the first item with the alias.
AliasIndex(alias, text) ==
  CHOOSE j \in DOMAIN alias :
    alias[j] = text /\ \A k \in DOMAIN alias : alias[k] = text => j <= k

\* The inner loop of _ReplaceAlias: temp_stack of expression i, made of the
\* new expressions before it.
RECURSIVE ReplaceAliasTokens(_, _, _, _)
ReplaceAliasTokens(expression, i, alias, new_postfix_expressions) ==
  IF expression = <<>> THEN <<>>
  ELSE (IF /\ expression[1].cls \in FieldTokenClasses
           /\ \E j \in DOMAIN alias : alias[j] = expression[1].text
        THEN IF AliasIndex(alias, expression[1].text) < i
               THEN new_postfix_expressions[AliasIndex(alias, expression[1].text)]
               ELSE <<expression[1]>>
        ELSE <<expression[1]>>)
       \o ReplaceAliasTokens(Tail(expression), i, alias, new_postfix_expressions)

\* _ReplaceAlias: alias maps the index of an expression to its alias.
RECURSIVE ReplaceAliasFrom(_, _, _, _)
ReplaceAliasFrom(postfix_expressions, i, alias, new_postfix_expressions) ==
  IF i > Len(postfix_expressions) THEN new_postfix_expressions
  ELSE ReplaceAliasFrom(
         postfix_expressions, i + 1, alias,
         Append(new_postfix_expressions,
                ReplaceAliasTokens(postfix_expressions[i], i, alias,
                                   new_postfix_expressions)))

ReplaceAliases(postfix_expressions, alias) ==
  ReplaceAliasFrom(postfix_expressions, 1, alias, <<>>)

\* _RewritePostfixExpressions for one expression
RewritePostfixExpressions(expression, schema) ==
  With(RewriteAggregations(
         RewriteEncryptedFields(ReplaceAlias(expression), schema)),
       LAMBDA rewritten_expression :
         IF rewritten_expression.error # "none"
           THEN Raised(rewritten_expression.error)
           ELSE Returned(rewritten_expression.stack))

(***************************************************************************)
(* ebq_crypto.py: StringHash.                                              *)
(***************************************************************************)

\* StringHash.GetStringKeyHash with the output_len (8) and the hashfunc
\* ('sha1') of the constructor; field_name and data are Python strings.
GetStringKeyHash(key, field_name, data) ==
  LET extended_data ==
        Ords(IntToFixedSizeString(Len(field_name.data)))
        \o field_name.data \o data.data
  IN  IF data.type # "unicode" THEN Raised("ValueError")
      ELSE IF field_name.type # "unicode" THEN Raised("ValueError")
      ELSE IF Len(field_name.data) = 0 THEN Raised("ValueError")
      ELSE With(PRF(key, Utf8Encode(extended_data), 8), LAMBDA raw_hash :
             Returned(B64Encode(raw_hash.value)))

\* StringHash.GetHashesForWordSubsequencesWithIv; rand_bytes is what
\* rand_gen(16) returns, and `shuffled` whether random.shuffle turns the
\* list of hashes round or leaves it as it is.  upto[n] is the list of the
\* hashes of the subsequences that start at one of the first n words.
GetHashesForWordSubsequencesWithIv(key, field_name, data, max_sequence_len, separator, rand_bytes, shuffled) ==
  LET joiner == IF separator.given /\ Len(separator.value) > 0
                  THEN separator.value ELSE <<32>>
  IN  IF data.type # "unicode" THEN Raised("ValueError")
      ELSE
        With(B64Encode(rand_bytes), LAMBDA iv :
          With(CleanUnicodeString(data.data, separator), LAMBDA words :
            With(LET upto[n \in 0..Len(words)] ==
                       IF n = 0 THEN <<>>
                       ELSE upto[n - 1] \o
                            [j \in 1..(IF Len(words) - n + 1 < max_sequence_len
                                         THEN Len(words) - n + 1
                                         ELSE max_sequence_len) |->
                               With(GetStringKeyHash(
                                      key, field_name,
                                      Unicode(Join(joiner,
                                                   SubSeq(words, n,
                                                          n + j - 1)))),
                                    LAMBDA keyed_hash :
                                      B64Encode(SubSeq(
                                        Sha1(Ords(iv \o keyed_hash.value)),
                                        1, 8)))]
                 IN  upto[Len(words)],
                 LAMBDA hashes :
                   Returned(Join(<<" ">>, <<iv>> \o (IF shuffled
                                                   THEN Reverse(hashes)
                                                   ELSE hashes))))))

(***************************************************************************)
(* query_interpreter.py: RewriteSelectionCriteria.                         *)
(***************************************************************************)

\* The keys of pseudonym_ciphers: the related of the entries of the schema
\* that are pseudonym and have one.
RelatedOfSchema(schema) ==
  {schema[i].related :
     i \in {k \in 1..Len(schema) :
              /\ "encrypt" \in DOMAIN schema[k]
              /\ schema[k].encrypt = <<"p", "s", "e", "u", "d", "o", "n", "y",
                  "m">>
              /\ "related" \in DOMAIN schema[k]}}

\* '"%s"' % cipher.Encrypt(unicode(token[1:-1])) for the cipher of the
\* key that `identifier` gives.
EncryptedLiteral(token, master_key_bytes, identifier) ==
  With(AsciiDecode(LiteralValue(token)), LAMBDA plaintext :
    IF plaintext.error # "none" THEN plaintext
    ELSE With(PseudonymCipher_Encrypt(
                GeneratePseudonymCipherKey(master_key_bytes,
                                           identifier).value,
                plaintext.value),
              LAMBDA ciphertext :
                IF ciphertext.error # "none" THEN ciphertext
                ELSE Returned(PlainStr(<<"\"">> \o ciphertext.value \o <<"\"">>))))

\* RewritePseudonymEncryption
RewritePseudonymEncryption(token, op2, schema, master_key_bytes, table_id) ==
  IF token.cls # "StringLiteralToken" THEN Returned(token)
  ELSE IF /\ op2.related.given
          /\ op2.related.value \notin RelatedOfSchema(schema)
    THEN Raised("BigqueryInvalidQueryError")
  ELSE EncryptedLiteral(token, master_key_bytes,
                        IF op2.related.given THEN op2.related.value
                        ELSE table_id)

\* CheckSearchableField; names holds the original_name of the classes.
CheckSearchableField(op1, schema, names) ==
  IF op1.cls = "SearchwordsToken" THEN TRUE
  ELSE IF op1.cls # "ProbabilisticToken" THEN FALSE
  ELSE LET row == GetEntryFromSchema(OriginalName(names, op1), schema)
       IN  row.encrypt \in {<<"p", "r", "o", "b", "a", "b", "i", "l", "i",
           "s", "t", "i", "c", "_", "s", "e", "a", "r", "c", "h", "w", "o",
           "r", "d", "s">>, <<"s", "e", "a", "r", "c", "h", "w", "o", "r",
           "d", "s">>}

\* RewriteSearchwordsEncryption: the rewritten field and literal.
RewriteSearchwordsEncryption(field, literal, schema, master_key_bytes, table_id, names) ==
  LET field_name == OriginalName(names, field)
      parts == Split(field_name, <<".">>)
      Separator(row) ==
        IF "searchwords_separator" \in DOMAIN row
          THEN Given(Ords(row.searchwords_separator))
          ELSE NoneValue
      WordSeq(searchwords_separator, word_list) ==
        IF searchwords_separator.given
          THEN Unicode(Join(searchwords_separator.value, word_list))
        ELSE IF Len(word_list) = 0 THEN Str(<<>>)
        ELSE Unicode(Join(<<32>>, word_list))
  IN  With(GetEntryFromSchema(field_name, schema), LAMBDA row :
        IF ~Found(row) THEN Raised("TypeError")
        ELSE
          With(Join(<<".">>, [parts EXCEPT
                            ![Len(parts)] = SEARCHWORDS_PREFIX \o row.name]),
               LAMBDA modified_field :
            With(AsciiDecode(LiteralValue(literal)), LAMBDA literal_value :
              IF literal_value.error # "none" THEN literal_value
              ELSE
                With(GetStringKeyHash(
                       GenerateStringHashKey(master_key_bytes,
                                             table_id).value,
                       Unicode(Ords(Split(modified_field, <<".">>)
                           [Len(parts)])),
                       WordSeq(Separator(row),
                               CleanUnicodeString(literal_value.value.data,
                                                  Separator(row)))),
                     LAMBDA hash :
                       IF hash.error # "none" THEN hash
                       ELSE Returned(
                              <<PlainStr(modified_field),
                                PlainStr(
                                  <<"t", "o", "_", "b", "a", "s", "e", "6",
                                      "4", "(", "l", "e", "f", "t", "(", "b",
                                      "y", "t", "e", "s", "(", "s", "h", "a",
                                      "1", "(", "c", "o", "n", "c", "a", "t",
                                      "(", "l", "e", "f", "t", "(">>
                                  \o modified_field \o <<",", " ", "2", "4",
                                      ")", ",", " ", "'">>
                                  \o hash.value \o <<"'", ")", ")", ")", ",",
                                      " ", "8", ")", ")">>)>>)))))

\* RewriteContainsOrFail: the two operands rewritten.
RewriteContainsOrFail(op1, op2, schema, master_key_bytes, table_id, names) ==
  IF op1.cls \notin EncryptedTokenClasses THEN Returned(<<op1, op2>>)
  ELSE IF ~CheckSearchableField(op1, schema, names)
    THEN Raised("BigqueryInvalidQueryError")
  ELSE IF op2.cls # "StringLiteralToken"
    THEN Raised("BigqueryInvalidQueryError")
  ELSE RewriteSearchwordsEncryption(op1, op2, schema, master_key_bytes,
                                    table_id, names)

\* CheckAndRewriteStack on postfix[1..n], and `count` calls of it in a row;
\* env holds schema, master_key, table_id and the original_name of the
\* token classes.
RECURSIVE CheckAndRewriteStack(_, _, _), CheckAndRewriteArguments(_, _, _, _)
CheckAndRewriteArguments(postfix, n, count, env) ==
  IF count <= 0 THEN Popped(<<>>, n)
  ELSE With(CheckAndRewriteStack(postfix, n, env), LAMBDA last :
         IF last.error # "none" THEN last
         ELSE With(CheckAndRewriteArguments(postfix, last.rest, count - 1,
                                            env),
                   LAMBDA others :
                     IF others.error # "none" THEN others
                     ELSE Popped(Append(others.value, last.value),
                                 others.rest)))

CheckAndRewriteStack(postfix, n, env) ==
  LET top == postfix[n]
      func_name == top.text
      num_args == IF top.cls = "OperatorToken" THEN top.num_args
                  ELSE NumArguments(func_name)
      Binary(arg1, arg2, rest) ==
        Popped(PlainStr(BinaryText(arg1.text, top.text, arg2.text)), rest)
  IN  IF n = 0 THEN Failed("BigqueryInvalidQueryError")
      ELSE IF top.cls \in {"int", "float"}
        THEN Popped(PlainStr(top.text), n - 1)
      ELSE IF top.cls \notin {"OperatorToken", "BuiltInFunctionToken"}
        THEN Popped(top, n - 1)
      ELSE IF num_args < 0 THEN Failed("BigqueryInvalidQueryError")
      ELSE
        With(CheckAndRewriteArguments(postfix, n - 1, num_args, env),
             LAMBDA popped :
          IF popped.error # "none" THEN popped
          ELSE IF top.cls = "BuiltInFunctionToken"
            THEN IF IsEncryptedExpression(popped.value)
                   THEN Failed("BigqueryInvalidQueryError")
                 ELSE Popped(PlainStr(CallText(
                               func_name,
                               [k \in 1..Len(popped.value) |->
                                  popped.value[k].text])),
                             popped.rest)
          ELSE IF top.num_args = 1
            THEN Popped(PlainStr(UnaryText(top.text, popped.value[1].text)),
                        popped.rest)
          ELSE IF top.text \in {<<"=">>, <<"=", "=">>, <<"!", "=">>}
            THEN IF IsDeterministicExpression(popped.value)
                   THEN Failed("BigqueryInvalidQueryError")
                 ELSE IF "PseudonymToken" \notin {popped.value[1].cls,
                                                  popped.value[2].cls}
                   THEN Binary(popped.value[1], popped.value[2], popped.rest)
                 ELSE
                   With(RewritePseudonymEncryption(
                          popped.value[1], popped.value[2], env.schema,
                          env.master_key, env.table_id),
                        LAMBDA first :
                          IF first.error # "none" THEN Failed(first.error)
                          ELSE
                            With(RewritePseudonymEncryption(
                                   popped.value[2], first.value, env.schema,
                                   env.master_key, env.table_id),
                                 LAMBDA second :
                                   IF second.error # "none"
                                     THEN Failed(second.error)
                                   ELSE Binary(first.value, second.value,
                                               popped.rest)))
          ELSE IF top.text = <<"c", "o", "n", "t", "a", "i", "n", "s">>
            THEN IF IsEncryptedExpression(<<popped.value[2]>>)
                   THEN Failed("BigqueryInvalidQueryError")
                 ELSE With(RewriteContainsOrFail(
                             popped.value[1], popped.value[2], env.schema,
                             env.master_key, env.table_id,
                             env.original_name),
                           LAMBDA contains :
                             IF contains.error # "none"
                               THEN Failed(contains.error)
                             ELSE Binary(contains.value[1],
                                         contains.value[2], popped.rest))
          ELSE IF IsEncryptedExpression(popped.value)
            THEN Failed("BigqueryInvalidQueryError")
          ELSE Binary(popped.value[1], popped.value[2], popped.rest))

\* RewriteSelectionCriteria; names holds the original_name of the token
\* classes.
RewriteSelectionCriteria(stack, schema, master_key_bytes, table_id, names) ==
  With(CheckAndRewriteStack(
         stack, Len(stack),
         [schema |-> schema, master_key |-> master_key_bytes,
          table_id |-> table_id, original_name |-> names]),
       LAMBDA new_expression :
         IF new_expression.error # "none" THEN Raised(new_expression.error)
         ELSE IF new_expression.rest # 0
           THEN Raised("BigqueryInvalidQueryError")
         ELSE Returned(new_expression.value.text))

(***************************************************************************)
(* load_lib.py: the conversion of a row of the data file.  A row of a CSV  *)
(* file is the list of its cells, one of a JSON file the dict of its       *)
(* values: a function of the names.  The cells and values are unicode.     *)
(* The columns here are strings and records; the homomorphic ciphers are   *)
(* modelled in Part C and left out of the rows.                            *)
(***************************************************************************)

\* The ciphers and the hasher ConvertCsvDataFile and ConvertJsonDataFile
\* make for the table, with what the random generators return for the row.
TableCiphers(master_key_bytes, table_id, rand_bytes, shuffled) ==
  [prob_cipher |->
     GenerateProbabilisticCipherKey(master_key_bytes, table_id).value,
   pseudonym_cipher |->
     GeneratePseudonymCipherKey(master_key_bytes, table_id).value,
   string_hasher |-> GenerateStringHashKey(master_key_bytes, table_id).value,
   master_key |-> master_key_bytes,
   rand_bytes |-> rand_bytes,
   shuffled |-> shuffled]

\* _GenerateRelatedCiphers: the key of schema[i]['cipher']
GenerateRelatedCiphers(entry, ciphers) ==
  IF "related" \in DOMAIN entry
    THEN GeneratePseudonymCipherKey(ciphers.master_key, entry.related).value
    ELSE ciphers.pseudonym_cipher

\* string_hasher.GetHashesForWordSubsequencesWithIv with the separator and
\* the max_word_sequence of the entry of the schema
SearchwordsOfEntry(data_value, entry, ciphers) ==
  GetHashesForWordSubsequencesWithIv(
    ciphers.string_hasher, Unicode(Ords(SEARCHWORDS_PREFIX \o entry.name)),
    Unicode(data_value),
    IF "max_word_sequence" \in DOMAIN entry THEN entry.max_word_sequence
    ELSE 5,
    IF "searchwords_separator" \in DOMAIN entry
      THEN Given(Ords(entry.searchwords_separator)) ELSE NoneValue,
    ciphers.rand_bytes, ciphers.shuffled)

\* The cells ConvertCsvDataFile appends to new_row for row[i]
ConvertCsvCell(entry, cell, ciphers) ==
  LET encrypt_mode == entry.encrypt
      searchable ==
        {<<"s", "e", "a", "r", "c", "h", "w", "o", "r", "d", "s">>,
         <<"p", "r", "o", "b", "a", "b", "i", "l", "i", "s", "t", "i", "c",
             "_", "s", "e", "a", "r", "c", "h", "w", "o", "r", "d", "s">>}
      Cells(first, second) ==
        IF first.error # "none" THEN first
        ELSE IF second.error # "none" THEN second
        ELSE Returned(first.value \o second.value)
      Cell(result) ==
        IF result.error # "none" THEN result ELSE Returned(<<result.value>>)
  IN  IF encrypt_mode = <<"n", "o", "n", "e">>
      THEN Returned(<<Chrs(Utf8Encode(cell))>>)
      ELSE IF encrypt_mode = <<"p", "s", "e", "u", "d", "o", "n", "y", "m">>
        THEN Cell(PseudonymCipher_Encrypt(
                    GenerateRelatedCiphers(entry, ciphers), Unicode(cell)))
      ELSE IF encrypt_mode = <<"h", "o", "m", "o", "m", "o", "r", "p", "h",
          "i", "c">> THEN Raised("NotModelled")
      ELSE Cells(IF encrypt_mode \in searchable
                   THEN Cell(SearchwordsOfEntry(cell, entry, ciphers))
                   ELSE Returned(<<>>),
                 IF encrypt_mode \in {<<"p", "r", "o", "b", "a", "b", "i",
                     "l", "i", "s", "t", "i", "c">>,
                                      <<"p", "r", "o", "b", "a", "b", "i",
                                          "l", "i", "s", "t", "i", "c", "_",
                                          "s", "e", "a", "r", "c", "h", "w",
                                          "o", "r", "d", "s">>}
                   THEN Cell(ProbabilisticCipher_Encrypt(
                               ciphers.prob_cipher, Unicode(cell),
                               ciphers.rand_bytes))
                   ELSE Returned(<<>>))

\* The loop of ConvertCsvDataFile over the columns from i on
RECURSIVE ConvertCsvCells(_, _, _, _)
ConvertCsvCells(schema, row, i, ciphers) ==
  IF i > Len(schema) THEN Returned(<<>>)
  ELSE With(ConvertCsvCell(schema[i], row[i], ciphers), LAMBDA cells :
         IF cells.error # "none" THEN cells
         ELSE With(ConvertCsvCells(schema, row, i + 1, ciphers),
                   LAMBDA others :
                     IF others.error # "none" THEN others
                     ELSE Returned(cells.value \o others.value)))

\* ConvertCsvDataFile for one row of the file
ConvertCsvRow(schema, master_key_bytes, table_id, row, rand_bytes, shuffled) ==
  IF Len(row) # Len(schema) THEN Raised("EncryptConvertError")
  ELSE With(TableCiphers(master_key_bytes, table_id, rand_bytes, shuffled),
            LAMBDA ciphers : ConvertCsvCells(schema, row, 1, ciphers))

\* _ConvertDataType
ConvertDataType(data_value, encrypt_type, entry, ciphers) ==
  IF encrypt_type = <<"n", "o", "n", "e">>
    THEN IF entry.type = <<"s", "t", "r", "i", "n", "g">>
           THEN Returned(Chrs(Utf8Encode(data_value)))
           ELSE Raised("NotModelled")
  ELSE IF encrypt_type = <<"p", "r", "o", "b", "a", "b", "i", "l", "i", "s",
      "t", "i", "c">>
    THEN ProbabilisticCipher_Encrypt(ciphers.prob_cipher, Unicode(data_value),
                                     ciphers.rand_bytes)
  ELSE IF encrypt_type = <<"p", "s", "e", "u", "d", "o", "n", "y", "m">>
    THEN PseudonymCipher_Encrypt(ciphers.pseudonym_cipher,
                                 Unicode(data_value))
  ELSE IF encrypt_type = <<"h", "o", "m", "o", "m", "o", "r", "p", "h", "i",
      "c">> THEN Raised("NotModelled")
  ELSE IF encrypt_type = <<"s", "e", "a", "r", "c", "h", "w", "o", "r", "d",
      "s">>
    THEN SearchwordsOfEntry(data_value, entry, ciphers)
  ELSE Returned(<<"N", "o", "n", "e">>)

\* _RewriteFieldName
RewriteFieldName(name, encrypt_type, type_value) ==
  IF encrypt_type = <<"n", "o", "n", "e">> THEN Returned(name)
  ELSE IF encrypt_type = <<"h", "o", "m", "o", "m", "o", "r", "p", "h", "i",
      "c">>
    THEN IF type_value = <<"i", "n", "t", "e", "g", "e", "r">>
           THEN Returned(HOMOMORPHIC_INT_PREFIX \o name)
         ELSE IF type_value = <<"f", "l", "o", "a", "t">>
           THEN Returned(HOMOMORPHIC_FLOAT_PREFIX \o name)
         ELSE Returned(<<"N", "o", "n", "e">>)
  ELSE IF encrypt_type = <<"p", "r", "o", "b", "a", "b", "i", "l", "i", "s",
      "t", "i", "c">>
    THEN Returned(PROBABILISTIC_PREFIX \o name)
  ELSE IF encrypt_type = <<"p", "s", "e", "u", "d", "o", "n", "y", "m">>
      THEN Returned(PSEUDONYM_PREFIX \o name)
  ELSE IF encrypt_type = <<"s", "e", "a", "r", "c", "h", "w", "o", "r", "d",
      "s">>
    THEN Returned(SEARCHWORDS_PREFIX \o name)
  ELSE Raised("ValueError")

\* _ConvertJsonField, and its loop over the schema from schema[i] on.
RECURSIVE ConvertJsonField(_, _, _), ConvertJsonFieldsFrom(_, _, _, _)
ConvertJsonField(data, schema, ciphers) ==
  ConvertJsonFieldsFrom(data, schema, 1, ciphers)

ConvertJsonFieldsFrom(data, schema, i, ciphers) ==
  LET schema_field == schema[i]
      field_name == schema_field.name
      data_value == data[field_name]
      type_value == schema_field.type
      mode_value == schema_field.mode
      repeated == mode_value = <<"r", "e", "p", "e", "a", "t", "e", "d">>
      encrypt_type == schema_field.encrypt
      both == encrypt_type = <<"p", "r", "o", "b", "a", "b", "i", "l", "i",
          "s", "t", "i", "c", "_", "s", "e", "a", "r", "c", "h", "w", "o",
          "r", "d", "s">>
      values == IF repeated THEN data_value ELSE <<data_value>>
      encrypt_types == IF both THEN <<<<"s", "e", "a", "r", "c", "h", "w",
          "o", "r", "d", "s">>, <<"p", "r", "o", "b", "a", "b", "i", "l", "i",
          "s", "t", "i", "c">>>>
                       ELSE <<encrypt_type>>
      List(results) ==
        IF FirstError(results) # "none" THEN Raised(FirstError(results))
        ELSE Returned(Values(results))
      Field(results) == IF repeated THEN List(results) ELSE results[1]
      \* the names of the field in the new row and the values under them
      Put(names, results) ==
        IF FirstError(results) # "none" THEN Raised(FirstError(results))
        ELSE With(ConvertJsonFieldsFrom(data, schema, i + 1, ciphers),
                  LAMBDA others :
                    IF others.error # "none" THEN others
                    ELSE Returned(
                           [n \in {names[k] : k \in 1..Len(names)} |->
                              results[CHOOSE k \in 1..Len(names) :
                                        names[k] = n].value] @@ others.value))
  IN  IF i > Len(schema) THEN Returned(<<>>)
      ELSE IF field_name \notin DOMAIN data
        THEN ConvertJsonFieldsFrom(data, schema, i + 1, ciphers)
      ELSE IF type_value = <<"r", "e", "c", "o", "r", "d">>
        THEN With(<<Field([k \in 1..Len(values) |->
                             ConvertJsonField(values[k], schema_field.fields,
                                              ciphers)])>>,
                  LAMBDA record : Put(<<field_name>>, record))
      ELSE
        With(RewriteFieldName(field_name, encrypt_type, type_value),
             LAMBDA new_name :
          IF ~both /\ new_name.error # "none" THEN new_name
          ELSE
            With([e \in 1..Len(encrypt_types) |->
                    Field([k \in 1..Len(values) |->
                             ConvertDataType(values[k], encrypt_types[e],
                                             schema_field, ciphers)])],
                 LAMBDA converted :
                   Put(IF both THEN <<SEARCHWORDS_PREFIX \o field_name,
                                      PROBABILISTIC_PREFIX \o field_name>>
                       ELSE <<new_name.value>>, converted)))

\* ConvertJsonDataFile for one line of the file
ConvertJsonRow(schema, master_key_bytes, table_id, data, rand_bytes, shuffled) ==
  With(TableCiphers(master_key_bytes, table_id, rand_bytes, shuffled),
       LAMBDA ciphers : ConvertJsonField(data, schema, ciphers))

(***************************************************************************)
(* query_lib.py: the Rewrite of the SELECT, WHERE and HAVING clauses of a  *)
(* query without WITHIN (within is empty); SELECT without a manifest.  The  *)
(* argument of a clause is the list of its postfix expressions; WHERE and  *)
(* HAVING have one.                                                        *)
(***************************************************************************)

\* _IsEncryptedExpression of _ExtractUnencryptedQueries
IsEncryptedStack(stack) ==
  \E i \in 1..Len(stack) :
    /\ stack[i].cls \in FieldTokenClasses \cup {"AggregationQueryToken"}
    /\ \E prefix \in ENCRYPTED_FIELD_PREFIXES :
         IsSubstring(prefix, stack[i].text)

\* The loop of _ExtractUnencryptedQueries from postfix_stacks[i] on: the
\* expressions it returns and the stacks it leaves.
RECURSIVE ExtractUnencryptedFrom(_, _, _)
ExtractUnencryptedFrom(postfix_stacks, i, counter) ==
  IF i > Len(postfix_stacks)
    THEN [error |-> "none", queries |-> <<>>, stacks |-> postfix_stacks]
  ELSE IF IsEncryptedStack(postfix_stacks[i])
    THEN ExtractUnencryptedFrom(postfix_stacks, i + 1, counter)
  ELSE
    With(UNENCRYPTED_ALIAS_PREFIX \o StrOfInt(counter) \o <<"_">>, LAMBDA name :
      With(ToInfix(postfix_stacks[i]), LAMBDA infix :
        IF infix.error # "none"
          THEN [error |-> infix.error, queries |-> <<>>, stacks |-> <<>>]
        ELSE
          With(ExtractUnencryptedFrom(
                 [postfix_stacks EXCEPT
                    ![i] = <<UnencryptedQueryToken(name)>>],
                 i + 1, counter + 1),
               LAMBDA others :
                 IF others.error # "none" THEN others
                 ELSE [others EXCEPT
                         !.queries =
                           <<infix.value \o <<" ", "A", "S", " ">>
                               \o name>> \o @])))

\* _ExtractUnencryptedQueries as its docstring has it: the expressions that
\* are not a single term.
RECURSIVE ExtractCompositesFrom(_, _, _)
ExtractCompositesFrom(postfix_stacks, i, counter) ==
  IF i > Len(postfix_stacks)
    THEN [error |-> "none", queries |-> <<>>, stacks |-> postfix_stacks]
  ELSE IF IsEncryptedStack(postfix_stacks[i]) \/ Len(postfix_stacks[i]) = 1
    THEN ExtractCompositesFrom(postfix_stacks, i + 1, counter)
  ELSE
    With(UNENCRYPTED_ALIAS_PREFIX \o StrOfInt(counter) \o <<"_">>, LAMBDA name :
      With(ExtractCompositesFrom(
             [postfix_stacks EXCEPT ![i] = <<UnencryptedQueryToken(name)>>],
             i + 1, counter + 1),
           LAMBDA others :
             [others EXCEPT
                !.queries = <<ToInfix(postfix_stacks[i]).value \o <<" ", "A",
                    "S", " ">> \o name>> \o @]))

ExtractUnencryptedQueries_Composites(postfix_stacks) ==
  ExtractCompositesFrom(postfix_stacks, 1, 0)

\* _ExtractUnencryptedQueries
ExtractUnencryptedQueries(postfix_stacks) ==
  ExtractUnencryptedFrom(postfix_stacks, 1, 0)

\* The tokens of the stacks, each with the index of its stack.
IndexedTokens(stacks) ==
  AllTokens([i \in 1..Len(stacks) |->
               [j \in 1..Len(stacks[i]) |-> [token |-> stacks[i][j], index |-> i]]])

\* str() of a token that has been given an alias (AliasToken.__str__).
StrWithAlias(text, alias, i) ==
  IF i \in DOMAIN alias THEN text \o <<" ", "A", "S", " ">>
      \o alias[i] ELSE text

\* _ExtractAggregationQueries: each query once, in the order of the stacks,
\* with the alias of its expression.
ExtractAggregationQueries(stacks, alias) ==
  LET tokens == IndexedTokens(stacks)
      First(k) ==
        /\ tokens[k].token.cls = "AggregationQueryToken"
        /\ \A j \in 1..(k - 1) :
             ~(/\ tokens[j].token.cls = "AggregationQueryToken"
               /\ tokens[j].token.text = tokens[k].token.text)
      found == {k \in 1..Len(tokens) : First(k)}
      Nth(n) == CHOOSE k \in found : Cardinality({j \in found : j < k}) = n - 1
  IN  [n \in 1..Cardinality(found) |->
         StrWithAlias(tokens[Nth(n)].token.text, alias, tokens[Nth(n)].index)]

\* _ExtractFieldQueries: the set of the columns, each as str() gives it
\* with its alias.  The set keeps the token added first of those with one
\* text.  (A FieldToken that two stacks share through _ReplaceAlias has the
\* alias assigned last; the expressions of the model with an alias hold no
\* such token in an encrypted stack.)
ExtractFieldQueries(stacks, alias) ==
  LET tokens == IndexedTokens(stacks)
      fields == {k \in 1..Len(tokens) : tokens[k].token.cls \in FieldTokenClasses}
      first == {k \in fields :
                  \A j \in fields : tokens[j].token.text = tokens[k].token.text => k <= j}
      Column(s, i) ==
        LET column_alias == IF alias # <<>> /\ i \in DOMAIN alias THEN alias[i]
                            ELSE Join(PERIOD_REPLACEMENT, Split(s, <<".">>))
        IN  IF column_alias # s THEN s \o <<" ", "A", "S", " ">>
            \o column_alias ELSE s
  IN  {Column(tokens[k].token.text, tokens[k].index) : k \in first}

\* _RewritePostfixExpressions for the list of the expressions
RewriteAllPostfixExpressions(postfix_expressions, schema) ==
  With([i \in 1..Len(postfix_expressions) |->
          RewritePostfixExpressions(postfix_expressions[i], schema)],
       LAMBDA each :
         IF FirstError(each) # "none" THEN Raised(FirstError(each))
         ELSE Returned(Values(each)))

\* The original_name of the token classes after _RewriteEncryptedFields on
\* the expressions from the i-th on.
RECURSIVE OriginalNameAfterAll(_, _, _, _)
OriginalNameAfterAll(names, postfix_expressions, i, schema) ==
  IF i > Len(postfix_expressions) THEN names
  ELSE OriginalNameAfterAll(
         OriginalNameAfter(names, postfix_expressions[i], schema),
         postfix_expressions, i + 1, schema)

\* _RewritePostfixExpressions for the expressions of SELECT and their aliases
RewriteSelectExpressions(postfix_expressions, alias, schema) ==
  RewriteAllPostfixExpressions(ReplaceAliases(postfix_expressions, alias), schema)

\* The encrypted queries of _SelectClause.Rewrite: a set, whose order in
\* the clause is the order Python iterates it in.
SelectEncryptedQueries(argument_list, alias, schema) ==
  With(RewriteSelectExpressions(argument_list, alias, schema),
       LAMBDA table_expressions :
         IF table_expressions.error # "none" THEN {}
         ELSE With(ExtractUnencryptedQueries(table_expressions.value),
                   LAMBDA unencrypted :
                     IF unencrypted.error # "none" THEN {}
                     ELSE ExtractFieldQueries(unencrypted.stacks, alias)))

\* _SelectClause.Rewrite; alias is the argument of the AS clause and
\* encrypted_order is the list of the encrypted queries in the order of the
\* iteration.
SelectClause_Rewrite(argument_list, alias, schema, encrypted_order) ==
  IF Len(argument_list) = 0 THEN Raised("ValueError")
  ELSE
    With(RewriteSelectExpressions(argument_list, alias, schema),
         LAMBDA table_expressions :
      IF table_expressions.error # "none" THEN table_expressions
      ELSE
        With(ExtractUnencryptedQueries(table_expressions.value),
             LAMBDA unencrypted_queries :
          IF unencrypted_queries.error # "none"
            THEN Raised(unencrypted_queries.error)
          ELSE Returned(
                 <<"S", "E", "L", "E", "C", "T", " ">>
                 \o Join(<<",", " ">>,
                         ExtractAggregationQueries(unencrypted_queries.stacks, alias)
                         \o encrypted_order
                         \o unencrypted_queries.queries))))

\* _WhereClause.Rewrite; names holds the original_name of the token classes
\* when Rewrite is called.
WhereClause_Rewrite(argument_list, schema, master_key_bytes, table_id, names) ==
  IF Len(argument_list[1]) = 0 THEN Returned(<<>>)
  ELSE
    With(RewritePostfixExpressions(argument_list[1], schema),
         LAMBDA rewritten_argument :
      IF rewritten_argument.error # "none" THEN rewritten_argument
      ELSE
        With(RewriteSelectionCriteria(
               rewritten_argument.value, schema, master_key_bytes, table_id,
               OriginalNameAfter(names, argument_list[1], schema)),
             LAMBDA criteria :
               IF criteria.error # "none" THEN criteria
               ELSE Returned(<<"W", "H", "E", "R", "E", " ">>
                   \o criteria.value)))

\* _HavingClause.Rewrite
HavingClause_Rewrite(argument_list, schema, master_key_bytes, table_id, names) ==
  IF Len(argument_list[1]) = 0 THEN Returned(<<>>)
  ELSE
    With(RewritePostfixExpressions(argument_list[1], schema),
         LAMBDA rewritten_argument :
      IF rewritten_argument.error # "none" THEN rewritten_argument
      ELSE IF \E k \in 1..Len(rewritten_argument.value) :
                IllegalNestedAggregation(rewritten_argument.value[k])
        THEN Raised("BigqueryInvalidQueryError")
      ELSE
        With(RewriteSelectionCriteria(
               rewritten_argument.value, schema, master_key_bytes, table_id,
               OriginalNameAfter(names, argument_list[1], schema)),
             LAMBDA criteria :
               IF criteria.error # "none" THEN criteria
               ELSE Returned(<<"H", "A", "V", "I", "N", "G", " ">>
                   \o criteria.value)))

(***************************************************************************)
(* The specification of Part E: a schema, a row of a data file that is     *)
(* loaded into a table (or none), and a clause of a query on a table that  *)
(* is rewritten.  The schemas follow those of test_util.py.                *)
(***************************************************************************)

Entry(name, type, mode, encrypt) ==
  [name |-> name, type |-> type, mode |-> mode, encrypt |-> encrypt]
RecordEntry(name, mode, fields) ==
  [name |-> name, type |-> <<"r", "e", "c", "o", "r", "d">>,
      mode |-> mode, fields |-> fields]

\* The schema of the cars (test_util._CARS_SCHEMA)
CarsSchema ==
  <<Entry(<<"Y", "e", "a", "r">>, <<"i", "n", "t", "e", "g", "e", "r">>, <<
      "r", "e", "q", "u", "i", "r", "e", "d">>, <<"n", "o", "n", "e">>),
    Entry(<<"M", "a", "k", "e">>, <<"s", "t", "r", "i", "n", "g">>, <<"r",
        "e", "q", "u", "i", "r", "e", "d">>, <<"p", "s", "e", "u", "d", "o",
        "n", "y", "m">>),
    Entry(<<"M", "o", "d", "e", "l">>, <<"s", "t", "r", "i", "n", "g">>, <<
        "r", "e", "q", "u", "i", "r", "e", "d">>, <<"p", "r", "o", "b", "a",
        "b", "i", "l", "i", "s", "t", "i", "c", "_", "s", "e", "a", "r", "c",
        "h", "w", "o", "r", "d", "s">>),
    Entry(<<"D", "e", "s", "c", "r", "i", "p", "t", "i", "o", "n">>, <<"s",
        "t", "r", "i", "n", "g">>, <<"n", "u", "l", "l", "a", "b", "l", "e">>, <<
        "s", "e", "a", "r", "c", "h", "w", "o", "r", "d", "s">>),
    [searchwords_separator |-> <<"/">>]
      @@ Entry(<<"W", "e", "b", "s", "i", "t", "e">>, <<"s", "t", "r", "i",
          "n", "g">>, <<"n", "u", "l", "l", "a", "b", "l", "e">>, <<"s", "e",
          "a", "r", "c", "h", "w", "o", "r", "d", "s">>),
    Entry(<<"P", "r", "i", "c", "e">>, <<"f", "l", "o", "a", "t">>, <<"r",
        "e", "q", "u", "i", "r", "e", "d">>, <<"p", "r", "o", "b", "a", "b",
        "i", "l", "i", "s", "t", "i", "c">>),
    Entry(<<"I", "n", "v", "o", "i", "c", "e", "_", "P", "r", "i", "c", "e">>, <<
        "i", "n", "t", "e", "g", "e", "r">>, <<"r", "e", "q", "u", "i", "r",
        "e", "d">>, <<"h", "o", "m", "o", "m", "o", "r", "p", "h", "i", "c">>),
    Entry(<<"H", "o", "l", "d", "b", "a", "c", "k", "_", "P", "e", "r", "c",
        "e", "n", "t", "a", "g", "e">>, <<"f", "l", "o", "a", "t">>, <<"r",
        "e", "q", "u", "i", "r", "e", "d">>, <<"h", "o", "m", "o", "m", "o",
        "r", "p", "h", "i", "c">>)>>

\* The value of `related` in the schemas (query_lib_test.py)
RelatedName == <<"c", "a", "r", "s", "_", "n", "a", "m", "e">>

\* Two columns of a table of persons, the name a pseudonym with `related`.
PersonsSchema ==
  <<Entry(<<"k", "i", "n", "d">>, <<"s", "t", "r", "i", "n", "g">>, <<"r",
      "e", "q", "u", "i", "r", "e", "d">>, <<"n", "o", "n", "e">>),
    [related |-> RelatedName]
      @@ Entry(<<"f", "u", "l", "l", "N", "a", "m", "e">>, <<"s", "t", "r",
          "i", "n", "g">>, <<"r", "e", "q", "u", "i", "r", "e", "d">>, <<"p",
          "s", "e", "u", "d", "o", "n", "y", "m">>)>>

\* A schema with a record (test_util._PLACES_SCHEMA), the name of the
\* spouse a pseudonym with `related`; with_related says whether fullName
\* has the same `related`.
SpouseSchema(with_related) ==
  <<Entry(<<"k", "i", "n", "d">>, <<"s", "t", "r", "i", "n", "g">>, <<"r",
      "e", "q", "u", "i", "r", "e", "d">>, <<"n", "o", "n", "e">>),
    IF with_related
      THEN [related |-> RelatedName]
             @@ Entry(<<"f", "u", "l", "l", "N", "a", "m", "e">>, <<"s", "t",
                 "r", "i", "n", "g">>, <<"r", "e", "q", "u", "i", "r", "e",
                 "d">>, <<"p", "s", "e", "u", "d", "o", "n", "y", "m">>)
      ELSE Entry(<<"f", "u", "l", "l", "N", "a", "m", "e">>, <<"s", "t", "r",
          "i", "n", "g">>, <<"r", "e", "q", "u", "i", "r", "e", "d">>, <<"p",
          "s", "e", "u", "d", "o", "n", "y", "m">>),
    RecordEntry(<<"s", "p", "o", "u", "s", "e">>, <<"r", "e", "q", "u", "i",
        "r", "e", "d">>,
      <<[related |-> RelatedName]
          @@ Entry(<<"s", "p", "o", "u", "s", "e", "N", "a", "m", "e">>, <<
              "s", "t", "r", "i", "n", "g">>, <<"r", "e", "q", "u", "i", "r",
              "e", "d">>, <<"p", "s", "e", "u", "d", "o", "n", "y", "m">>)>>)>>

\* The columns of the cars that are searched for words; the last has a
\* separator and a max_word_sequence.
SearchSchema ==
  <<Entry(<<"M", "o", "d", "e", "l">>, <<"s", "t", "r", "i", "n", "g">>, <<
      "r", "e", "q", "u", "i", "r", "e", "d">>, <<"p", "r", "o", "b", "a",
      "b", "i", "l", "i", "s", "t", "i", "c", "_", "s", "e", "a", "r", "c",
      "h", "w", "o", "r", "d", "s">>),
    Entry(<<"D", "e", "s", "c", "r", "i", "p", "t", "i", "o", "n">>, <<"s",
        "t", "r", "i", "n", "g">>, <<"n", "u", "l", "l", "a", "b", "l", "e">>, <<
        "s", "e", "a", "r", "c", "h", "w", "o", "r", "d", "s">>),
    [searchwords_separator |-> <<"/">>, max_word_sequence |-> 2]
      @@ Entry(<<"W", "e", "b", "s", "i", "t", "e">>, <<"s", "t", "r", "i",
          "n", "g">>, <<"n", "u", "l", "l", "a", "b", "l", "e">>, <<"s", "e",
          "a", "r", "c", "h", "w", "o", "r", "d", "s">>)>>

\* A schema with a repeated record (test_util._JOBS_SCHEMA)
CitiesSchema ==
  <<Entry(<<"k", "i", "n", "d">>, <<"s", "t", "r", "i", "n", "g">>, <<"r",
      "e", "q", "u", "i", "r", "e", "d">>, <<"n", "o", "n", "e">>),
    RecordEntry(<<"c", "i", "t", "i", "e", "s", "L", "i", "v", "e", "d">>, <<
        "r", "e", "p", "e", "a", "t", "e", "d">>,
      <<[searchwords_separator |-> <<"/">>]
          @@ Entry(<<"p", "l", "a", "c", "e">>, <<"s", "t", "r", "i", "n", "g">>,<<
              "r", "e", "q", "u", "i", "r", "e", "d">>, <<"s", "e", "a", "r",
              "c", "h", "w", "o", "r", "d", "s">>)>>)>>

\* The master key
MasterKey == CipherKey(16, 3)

\* The data of a scenario: no row, a row of a CSV file or a line of a JSON
\* file.
NoRow == [format |-> "none", data |-> <<>>]
CsvRow(row) == [format |-> "csv", data |-> row]
JsonRow(data) == [format |-> "json", data |-> data]

Scenario(schema, load, query, source, clause_name, argument_list) ==
  [schema |-> schema, load_table |-> load, query_table |-> query,
   source_row |-> source, clause |-> clause_name, argument |-> argument_list]

\* The tokens of the expressions.
Field(name) == FieldToken(name)
Literal(text) == StringLiteralToken(<<"\"">> \o text \o <<"\"">>)
Operator(symbol) == OperatorToken(symbol, 2)
Unary(symbol) == OperatorToken(symbol, 1)
Function(name) == BuiltInFunctionToken(name)
Aggregation(name) == AggregationFunctionToken(name, 1)

\* The operands and the operators of the WHERE and HAVING expressions on
\* the cars.
CarOperands ==
  {Field(<<"Y", "e", "a", "r">>), Field(<<"M", "a", "k", "e">>), Field(<<"M",
      "o", "d", "e", "l">>), Field(<<"D", "e", "s", "c", "r", "i", "p", "t",
      "i", "o", "n">>),
   Field(<<"P", "r", "i", "c", "e">>), Field(<<"I", "n", "v", "o", "i", "c",
       "e", "_", "P", "r", "i", "c", "e">>), Literal(<<"H", "e", "l", "l", "o">>),
       IntToken(5)}
BinaryOperators == {<<"+">>, <<"<">>, <<"a", "n", "d">>, <<"=">>, <<"=", "=">>, <<
    "!", "=">>, <<"c", "o", "n", "t", "a", "i", "n", "s">>}
UnaryOperators == {<<"n", "o", "t">>, <<"~">>}

\* WHERE and HAVING expressions on the cars: an operator on one or two
\* operands, and expressions of more than one operator or function.
CarCriteria ==
  {<<a, b, Operator(sym)>> :
     a \in CarOperands, b \in CarOperands, sym \in BinaryOperators}
  \cup {<<a, Unary(sym)>> : a \in CarOperands, sym \in UnaryOperators}
  \cup {<<Field(<<"M", "a", "k", "e">>), Literal(<<"H", "e", "l", "l", "o">>),
      Operator(<<"=">>), Field(<<"Y", "e", "a", "r">>),
          IntToken(5), Operator(<<"<">>), Operator(<<"a", "n", "d">>)>>,
        <<Field(<<"M", "a", "k", "e">>), Literal(<<"H", "e", "l", "l", "o">>),
            Operator(<<"=">>), Unary(<<"n", "o", "t">>)>>,
        <<Field(<<"I", "n", "v", "o", "i", "c", "e", "_", "P", "r", "i", "c",
            "e">>), Unary(<<"~">>), IntToken(5), Operator(<<"<">>)>>,
        <<Field(<<"Y", "e", "a", "r">>), IntToken(1), Operator(<<"+">>),
            IntToken(2000),
          Operator(<<"=">>)>>,
        <<Field(<<"M", "a", "k", "e">>), IntToken(1), Operator(<<"+">>),
            IntToken(2000),
          Operator(<<">", "=">>)>>,
        <<Field(<<"Y", "e", "a", "r">>), Field(<<"I", "n", "v", "o", "i", "c",
            "e", "_", "P", "r", "i", "c", "e">>), Operator(<<"+">>),
            IntToken(5),
          Operator(<<"<">>)>>,
        <<Field(<<"M", "a", "k", "e">>), Function(<<"l", "o", "w", "e", "r">>),
            Literal(<<"H", "e", "l", "l", "o">>), Operator(<<"=">>)>>,
        <<Field(<<"M", "o", "d", "e", "l">>), IntToken(2), Function(<<"l",
            "e", "f", "t">>)>>,
        <<Field(<<"Y", "e", "a", "r">>), Function(<<"a", "b", "s">>),
            IntToken(5), Operator(<<"<">>)>>,
        <<Function(<<"p", "i">>), IntToken(3), Operator(<<"<">>)>>,
        <<Field(<<"Y", "e", "a", "r">>), IntToken(1), IntToken(2), Function(<<
            "s", "u", "b", "s", "t", "r">>)>>,
        <<Field(<<"M", "a", "k", "e">>), Field(<<"M", "a", "k", "e">>),
            Operator(<<"=", "=">>)>>,
        <<Field(<<"W", "e", "b", "s", "i", "t", "e">>), Literal(<<"w", "w",
            "w", ".", "f", "o", "r", "d", ".", "c", "o", "m">>), Operator(<<
            "c", "o", "n", "t", "a", "i", "n", "s">>)>>}

\* HAVING expressions with an aggregation.
CarAggregateCriteria ==
  {<<Field(<<"M", "a", "k", "e">>), Aggregation(<<"C", "O", "U", "N", "T">>),
      IntToken(1), Operator(<<"<">>)>>,
   <<Field(<<"Y", "e", "a", "r">>), Aggregation(<<"M", "A", "X">>),
       IntToken(5), Operator(<<"=">>)>>,
   <<Field(<<"Y", "e", "a", "r">>), Aggregation(<<"S", "U", "M">>),
       IntToken(5), Operator(<<"<">>)>>,
   <<Field(<<"M", "a", "k", "e">>), Aggregation(<<"G", "R", "O", "U", "P",
       "_", "C", "O", "N", "C", "A", "T">>), Literal(<<"H", "e", "l", "l", "o">>),
     Operator(<<"=">>)>>,
   <<Field(<<"Y", "e", "a", "r">>), Aggregation(<<"G", "R", "O", "U", "P",
       "_", "C", "O", "N", "C", "A", "T">>), Literal(<<"H", "e", "l", "l", "o">>),
     Operator(<<"=">>)>>,
   <<Field(<<"P", "r", "i", "c", "e">>), Aggregation(<<"M", "I", "N">>),
       IntToken(5), Operator(<<"<">>)>>}

\* SELECT clauses on the cars: fields, operators, functions in and out of
\* an aggregation.  SUM and AVG have no encrypted argument here.
CarSelects ==
  {<<<<Field(name)>>>> : name \in {<<"Y", "e", "a", "r">>, <<"M", "a", "k",
      "e">>, <<"M", "o", "d", "e", "l">>, <<"I", "n", "v", "o", "i", "c", "e",
      "_", "P", "r", "i", "c", "e">>}}
  \cup {<<<<Field(name), Function(func)>>>> :
          name \in {<<"Y", "e", "a", "r">>, <<"M", "a", "k", "e">>, <<"M",
              "o", "d", "e", "l">>, <<"I", "n", "v", "o", "i", "c", "e", "_",
              "P", "r", "i", "c", "e">>},
          func \in ONE_ARGUMENT_FUNCTIONS}
  \cup {<<<<Field(name), Function(func), Aggregation(agg)>>>> :
          name \in {<<"Y", "e", "a", "r">>, <<"M", "a", "k", "e">>, <<"M",
              "o", "d", "e", "l">>, <<"I", "n", "v", "o", "i", "c", "e", "_",
              "P", "r", "i", "c", "e">>},
          func \in {<<"a", "b", "s">>, <<"l", "o", "w", "e", "r">>},
          agg \in {<<"C", "O", "U", "N", "T">>, <<"M", "A", "X">>, <<"S", "U",
              "M">>, <<"G", "R", "O", "U", "P", "_", "C", "O", "N", "C", "A",
              "T">>, <<"T", "O", "P">>, DISTINCTCOUNT}}
  \cup {<<<<Field(name), IntToken(2), Function(func)>>>> :
          name \in {<<"Y", "e", "a", "r">>, <<"M", "a", "k", "e">>, <<"I",
              "n", "v", "o", "i", "c", "e", "_", "P", "r", "i", "c", "e">>},
          func \in TWO_ARGUMENT_FUNCTIONS}
  \cup {<<<<Field(name), IntToken(2), Function(func), Aggregation(agg)>>>> :
          name \in {<<"Y", "e", "a", "r">>, <<"M", "a", "k", "e">>, <<"I",
              "n", "v", "o", "i", "c", "e", "_", "P", "r", "i", "c", "e">>},
          func \in TWO_ARGUMENT_FUNCTIONS, agg \in {<<"C", "O", "U", "N", "T">>, <<
              "M", "I", "N">>}}
  \cup {<<<<Field(name), Aggregation(agg)>>>> :
          name \in {<<"Y", "e", "a", "r">>, <<"M", "a", "k", "e">>, <<"P",
              "r", "i", "c", "e">>},
          agg \in {<<"C", "O", "U", "N", "T">>, <<"M", "A", "X">>, <<"G", "R",
              "O", "U", "P", "_", "C", "O", "N", "C", "A", "T">>, <<"T", "O",
              "P">>, DISTINCTCOUNT}}
  \cup {<<<<Field(<<"Y", "e", "a", "r">>), IntToken(1), Operator(<<"+">>)>>>>,
        <<<<Field(<<"Y", "e", "a", "r">>), Field(<<"I", "n", "v", "o", "i",
            "c", "e", "_", "P", "r", "i", "c", "e">>), Operator(<<"+">>)>>>>,
        <<<<Field(<<"Y", "e", "a", "r">>), Aggregation(<<"S", "U", "M">>)>>>>,
        <<<<IntToken(2), IntToken(3), Function(<<"p", "o", "w">>), Aggregation(<<
            "S", "U", "M">>)>>>>,
        <<<<Literal(<<"H", "e", "l", "l", "o">>), Function(<<"l", "o", "w",
            "e", "r">>), Aggregation(<<"M", "A", "X">>)>>>>,
        <<<<Function(<<"p", "i">>)>>>>,
        <<<<Field(<<"M", "a", "k", "e">>), IntToken(1), IntToken(2), Function(<<
            "s", "u", "b", "s", "t", "r">>)>>>>,
        <<<<Field(<<"M", "a", "k", "e">>), IntToken(1), IntToken(2), Function(<<
            "s", "u", "b", "s", "t", "r">>),
            Aggregation(<<"C", "O", "U", "N", "T">>)>>>>,
        <<<<Field(<<"M", "a", "k", "e">>), Function(<<"l", "o", "w", "e", "r">>),
            Function(<<"l", "e", "n", "g", "t", "h">>),
            Aggregation(<<"M", "A", "X">>)>>>>,
        <<<<Field(<<"Y", "e", "a", "r">>), Function(<<"a", "b", "s">>), Field(<<
            "M", "a", "k", "e">>), Function(<<"l", "o", "w", "e", "r">>),
            Operator(<<"+">>), Aggregation(<<"C", "O", "U", "N", "T">>)>>>>,
        <<<<Field(<<"M", "a", "k", "e">>), Function(<<"l", "o", "w", "e", "r">>),
            Aggregation(<<"C", "O", "U", "N", "T">>),
            Aggregation(<<"M", "A", "X">>)>>>>,
        <<<<Field(<<"M", "a", "k", "e">>)>>, <<Field(<<"M", "a", "k", "e">>),
            Function(<<"l", "o", "w", "e", "r">>)>>>>,
        <<<<Field(<<"Y", "e", "a", "r">>)>>, <<Field(<<"Y", "e", "a", "r">>),
            IntToken(1), Operator(<<"+">>)>>,
          <<Field(<<"M", "o", "d", "e", "l">>)>>>>,
        <<<<Field(<<"Y", "e", "a", "r">>), Aggregation(<<"M", "A", "X">>)>>,
          <<Field(<<"M", "a", "k", "e">>), Function(<<"l", "o", "w", "e", "r">>),
              Aggregation(<<"C", "O", "U", "N", "T">>)>>>>}

QueryScenarios ==
  {Scenario(CarsSchema, <<"1">>, <<"1">>, NoRow, "WHERE", <<stack>>) :
     stack \in CarCriteria}
  \cup {Scenario(CarsSchema, <<"1">>, <<"1">>, NoRow, "HAVING", <<stack>>) :
          stack \in CarAggregateCriteria
                    \cup {s \in CarCriteria : s[1] = Field(<<"M", "a", "k",
                        "e">>)}}
  \cup {Scenario(CarsSchema, <<"1">>, <<"1">>, NoRow, "SELECT", expressions) :
          expressions \in CarSelects}

\* The ids of two tables.
TableIds == {<<"1">>, <<"2">>}

\* A value of the name columns and the literal of a query that is this
\* value: ASCII names, and u'\xe9' with its UTF-8 bytes in the query.
NameTexts ==
  {[value |-> Ords(<<"H", "e", "l", "l", "o">>), literal |-> <<"H", "e", "l",
      "l", "o">>],
   [value |-> Ords(<<"J", "a", "n", "e", " ", "D", "o", "e">>), literal |-> <<
       "J", "a", "n", "e", " ", "D", "o", "e">>],
   [value |-> <<233>>, literal |-> HighBytes]}

\* The equality of a field and a literal, the field first or the literal.
Equalities(name, text) ==
  {<<Field(name), Literal(text), Operator(sym)>> : sym \in {<<"=">>, <<"=",
      "=">>}}
  \cup {<<Literal(text), Field(name), Operator(<<"=">>)>>}

\* A JSON object of the persons: the name is that of the person and of the
\* spouse.
PersonData(name) ==
  (<<"k", "i", "n", "d">> :> Ords(<<"p", "e", "r", "s", "o", "n">>)) @@ (<<
      "f", "u", "l", "l", "N", "a", "m", "e">> :> name)
SpouseData(name) ==
  PersonData(name) @@ (<<"s", "p", "o", "u", "s", "e">> :> (<<"s", "p", "o",
      "u", "s", "e", "N", "a", "m", "e">> :> name))

\* A table with a pseudonym column that has `related` is loaded from a CSV
\* or a JSON file, and a table with this column is queried for the value.
RelatedCsvScenarios ==
  {Scenario(PersonsSchema, load, query,
            CsvRow(<<Ords(<<"p", "e", "r", "s", "o", "n">>), Ords(<<"H", "e",
                "l", "l", "o">>)>>), clause_name,
            <<stack>>) :
     load \in TableIds, query \in TableIds,
     clause_name \in {"WHERE", "HAVING"},
     stack \in Equalities(<<"f", "u", "l", "l", "N", "a", "m", "e">>, <<"H",
         "e", "l", "l", "o">>)}
  \cup {Scenario(PersonsSchema, <<"1">>, query, CsvRow(<<Ords(<<"p", "e", "r",
      "s", "o", "n">>), t.value>>),
                 "WHERE", <<<<Field(<<"f", "u", "l", "l", "N", "a", "m", "e">>),
                     Literal(t.literal),
                              Operator(<<"=">>)>>>>) :
          query \in TableIds, t \in NameTexts}
RelatedJsonScenarios ==
  {Scenario(PersonsSchema, load, query, JsonRow(PersonData(Ords(<<"H", "e",
      "l", "l", "o">>))),
            clause_name, <<stack>>) :
     load \in TableIds, query \in TableIds,
     clause_name \in {"WHERE", "HAVING"},
     stack \in Equalities(<<"f", "u", "l", "l", "N", "a", "m", "e">>, <<"H",
         "e", "l", "l", "o">>)}
  \cup UNION {{Scenario(SpouseSchema(with_related), load, query,
                        JsonRow(SpouseData(t.value)), "WHERE", <<stack>>) :
                 with_related \in BOOLEAN, load \in TableIds,
                 query \in TableIds,
                 stack \in Equalities(<<"s", "p", "o", "u", "s", "e", ".",
                     "s", "p", "o", "u", "s", "e", "N", "a", "m", "e">>,
                     t.literal)
                           \cup Equalities(<<"f", "u", "l", "l", "N", "a",
                               "m", "e">>, t.literal)} :
                t \in {n \in NameTexts : n.literal # HighBytes}}

\* The texts of the searched columns, and words to look for in them.
ModelText == Ords(<<"G", "r", "a", "n", "d", " ", "C", "h", "e", "r", "o",
    "k", "e", "e">>)
DescriptionText == Ords(<<"M", "U", "S", "T", " ", "S", "E", "L", "L", "!",
    " ", "a", "i", "r", ",", " ", "m", "o", "o", "n", " ", "r", "o", "o", "f">>)
WebsiteText == Ords(<<"w", "w", "w", ".", "f", "o", "r", "d", ".", "c", "o",
    "m", "/", "c", "a", "r", "s", "/", "e", "3", "5", "0">>)
ModelWords == {<<"g", "r", "a", "n", "d">>, <<"C", "h", "e", "r", "o", "k",
    "e", "e">>, <<"g", "r", "a", "n", "d", " ", "c", "h", "e", "r", "o", "k",
    "e", "e">>, <<"j", "e", "e", "p">>}
DescriptionWords ==
  {<<"m", "o", "o", "n", " ", "r", "o", "o", "f">>, <<"A", "i", "r">>, <<"s",
      "e", "l", "l", " ", "a", "i", "r", " ", "m", "o", "o", "n">>, <<"m",
      "u", "s", "t", " ", "s", "e", "l", "l", " ", "a", "i", "r", " ", "m",
      "o", "o", "n", " ", "r", "o", "o", "f">>, <<"r", "o", "o", "f", " ",
      "m", "o", "o", "n">>,
   <<"M", "o", "o", "n", ",", " ", "r", "o", "o", "f", "!">>}
WebsiteWords == {<<"c", "a", "r", "s", "/", "e", "3", "5", "0">>, <<"w", "w",
    "w", ".", "f", "o", "r", "d", ".", "c", "o", "m">>, <<"w", "w", "w", ".",
    "f", "o", "r", "d", ".", "c", "o", "m", "/", "c", "a", "r", "s", "/", "e",
    "3", "5", "0">>, <<"c", "a", "r", "s">>}

Contains(name, text) == <<Field(name), Literal(text), Operator(<<"c", "o",
    "n", "t", "a", "i", "n", "s">>)>>

\* WHERE expressions of the searched columns: one contains, and two of
\* them joined by `and`.
SearchCriteria ==
  {Contains(<<"M", "o", "d", "e", "l">>, q) : q \in ModelWords}
  \cup {Contains(<<"D", "e", "s", "c", "r", "i", "p", "t", "i", "o", "n">>,
      q) : q \in DescriptionWords}
  \cup {Contains(<<"W", "e", "b", "s", "i", "t", "e">>, q) : q \in WebsiteWords}
  \cup {Contains(<<"D", "e", "s", "c", "r", "i", "p", "t", "i", "o", "n">>, <<
      "m", "o", "o", "n", " ", "r", "o", "o", "f">>) \o Contains(<<"W", "e",
      "b", "s", "i", "t", "e">>, q)
          \o <<Operator(<<"a", "n", "d">>)>> : q \in {<<"c", "a", "r", "s">>, <<
              "e", "3", "5", "0">>}}
  \cup {Contains(<<"W", "e", "b", "s", "i", "t", "e">>, <<"c", "a", "r", "s">>)
      \o Contains(<<"D", "e", "s", "c", "r", "i", "p", "t", "i", "o", "n">>, <<
      "a", "i", "r">>)
          \o <<Operator(<<"a", "n", "d">>)>>,
        Contains(<<"M", "o", "d", "e", "l">>, <<"g", "r", "a", "n", "d">>)
            \o Contains(<<"D", "e", "s", "c", "r", "i", "p", "t", "i", "o",
            "n">>, <<"a", "i", "r">>)
          \o <<Operator(<<"a", "n", "d">>)>>}

\* A JSON object with the cities of a person.
CitiesData ==
  (<<"k", "i", "n", "d">> :> Ords(<<"p", "e", "r", "s", "o", "n">>))
  @@ (<<"c", "i", "t", "i", "e", "s", "L", "i", "v", "e", "d">> :> <<(<<"p",
      "l", "a", "c", "e">> :> Ords(<<"S", "e", "a", "t", "t", "l", "e", "/",
      "W", "A">>)),
                         (<<"p", "l", "a", "c", "e">> :> Ords(<<"S", "t", "o",
                             "c", "k", "h", "o", "l", "m">>))>>)

\* A table with searched columns is loaded and queried for words.
SearchCsvScenarios ==
  {Scenario(SearchSchema, <<"1">>, <<"1">>,
            CsvRow(<<ModelText, DescriptionText, WebsiteText>>),
            "WHERE", <<stack>>) : stack \in SearchCriteria}
SearchJsonScenarios ==
  {Scenario(SearchSchema, <<"1">>, <<"1">>,
                 JsonRow((<<"M", "o", "d", "e", "l">> :> ModelText)
                         @@ (<<"D", "e", "s", "c", "r", "i", "p", "t", "i",
                             "o", "n">> :> DescriptionText)
                         @@ (<<"W", "e", "b", "s", "i", "t", "e">>
                             :> WebsiteText)),
                 "WHERE", <<Contains(<<"D", "e", "s", "c", "r", "i", "p", "t",
                     "i", "o", "n">>, <<"m", "o", "o", "n", " ", "r", "o",
                     "o", "f">>)>>)}
  \cup {Scenario(CitiesSchema, <<"1">>, <<"1">>, JsonRow(CitiesData), "WHERE",
                 <<Contains(<<"c", "i", "t", "i", "e", "s", "L", "i", "v",
                     "e", "d", ".", "p", "l", "a", "c", "e">>, q)>>) :
          q \in {<<"s", "e", "a", "t", "t", "l", "e">>, <<"S", "t", "o", "c",
              "k", "h", "o", "l", "m">>, <<"s", "e", "a", "t", "t", "l", "e",
              "/", "w", "a">>}}

\* The scenarios without a JSON file, and those with one.
Scenarios == QueryScenarios \cup RelatedCsvScenarios \cup SearchCsvScenarios
JsonScenarios == RelatedJsonScenarios \cup SearchJsonScenarios

\* No token class has an original_name before the first token is made.
NoNames == [cls \in EncryptedTokenClasses |-> NoneValue]

\* A clause of a query without AS, made without a manifest and before a
\* SELECT clause is rewritten.
NoManifest == [given |-> FALSE, columns |-> <<>>]
NoSelectClause == [given |-> FALSE, unencrypted_queries |-> <<>>]
NoExtraArgs ==
  [alias |-> <<>>, manifest |-> NoManifest, select_clause |-> NoSelectClause]

StartOf(s) ==
  /\ user_schema = s.schema
  /\ load_table = s.load_table
  /\ query_table = s.query_table
  /\ source_row = s.source_row
  /\ stored_row = <<>>
  /\ clause = s.clause
  /\ argument = s.argument
  /\ extra_args = IF "extra_args" \in DOMAIN s THEN s.extra_args ELSE NoExtraArgs
  /\ original_name = NoNames
  /\ rewritten = <<>>
  /\ progress = "start"

QueryInit ==
  \/ \E s \in Scenarios : StartOf(s)
  \/ \E s \in JsonScenarios : StartOf(s)

QueryOnly == UNCHANGED <<clientVars, cryptoVars, libraryVars>>

\* The clause is rewritten after the row, if there is one, is loaded.
ReadyToRewrite ==
  progress = IF source_row.format = "none" THEN "start" ELSE "loaded"

\* load_lib.ConvertCsvDataFile on a file of one row
ConvertCsvDataFile ==
  /\ progress = "start"
  /\ source_row.format = "csv"
  /\ \E rand_bytes \in RandBytes, shuffled \in BOOLEAN :
       stored_row' = ConvertCsvRow(user_schema, MasterKey, load_table,
                                   source_row.data, rand_bytes, shuffled)
  /\ progress' = "loaded"
  /\ UNCHANGED <<user_schema, load_table, query_table, source_row, clause,
                 argument, extra_args, original_name, rewritten>>
  /\ QueryOnly

\* load_lib.ConvertJsonDataFile on a file of one line
ConvertJsonDataFile ==
  /\ progress = "start"
  /\ source_row.format = "json"
  /\ \E rand_bytes \in RandBytes, shuffled \in BOOLEAN :
       stored_row' = ConvertJsonRow(user_schema, MasterKey, load_table,
                                    source_row.data, rand_bytes, shuffled)
  /\ progress' = "loaded"
  /\ UNCHANGED <<user_schema, load_table, query_table, source_row, clause,
                 argument, extra_args, original_name, rewritten>>
  /\ QueryOnly

\* The orders a set may be iterated in.
Orders(set) ==
  {order \in [1..Cardinality(set) -> set] :
     \A i, j \in 1..Cardinality(set) : order[i] = order[j] => i = j}

\* _SelectClause.Rewrite
SelectRewrite ==
  /\ clause = "SELECT"
  /\ ReadyToRewrite
  /\ \E encrypted_order \in Orders(SelectEncryptedQueries(argument, extra_args.alias,
                                                          user_schema)) :
       rewritten' = SelectClause_Rewrite(argument, extra_args.alias, user_schema,
                                         encrypted_order)
  /\ original_name' = OriginalNameAfterAll(original_name,
                                           ReplaceAliases(argument, extra_args.alias),
                                           1, user_schema)
  /\ progress' = "done"
  /\ UNCHANGED <<user_schema, load_table, query_table, source_row, stored_row,
                 clause, argument, extra_args>>
  /\ QueryOnly

\* _WhereClause.Rewrite
WhereRewrite ==
  /\ clause = "WHERE"
  /\ ReadyToRewrite
  /\ rewritten' = WhereClause_Rewrite(argument, user_schema, MasterKey,
                                      query_table, original_name)
  /\ original_name' = OriginalNameAfterAll(original_name, argument, 1,
                                           user_schema)
  /\ progress' = "done"
  /\ UNCHANGED <<user_schema, load_table, query_table, source_row, stored_row,
                 clause, argument, extra_args>>
  /\ QueryOnly

\* _HavingClause.Rewrite
HavingRewrite ==
  /\ clause = "HAVING"
  /\ ReadyToRewrite
  /\ rewritten' = HavingClause_Rewrite(argument, user_schema, MasterKey,
                                       query_table, original_name)
  /\ original_name' = OriginalNameAfterAll(original_name, argument, 1,
                                           user_schema)
  /\ progress' = "done"
  /\ UNCHANGED <<user_schema, load_table, query_table, source_row, stored_row,
                 clause, argument, extra_args>>
  /\ QueryOnly

InitQuery == QueryInit /\ ClientIdle /\ CryptoIdle /\ LibraryIdle

NextQuery ==
  \/ ConvertCsvDataFile
  \/ ConvertJsonDataFile
  \/ SelectRewrite
  \/ WhereRewrite
  \/ HavingRewrite

SpecQuery == InitQuery /\ [][NextQuery]_vars

\* No rewrite and no load ends in a part of the code that is left out.
QueryModelled ==
  /\ progress = "done" => rewritten.error # "NotModelled"
  /\ progress # "start" /\ source_row.format # "none"
       => stored_row.error # "NotModelled"

(***************************************************************************)
(* The properties of the rewriting of the WHERE, HAVING and SELECT clauses *)
(* and of the rows stored at load time.                                    *)
(***************************************************************************)

\* data[parts[i]][parts[i + 1]]... : the value under a path of names.
RECURSIVE ValueAt(_, _, _)
ValueAt(data, parts, i) ==
  IF i > Len(parts) THEN data ELSE ValueAt(data[parts[i]], parts, i + 1)

\* The column of the schema with this name, and the cell of the stored CSV
\* row its first cell is (a probabilistic_searchwords column has two).
ColumnOf(name) ==
  CHOOSE i \in 1..Len(user_schema) : user_schema[i].name = name
CellOf(name) ==
  ColumnOf(name)
  + Cardinality({j \in 1..(ColumnOf(name) - 1) :
                   user_schema[j].encrypt = <<"p", "r", "o", "b", "a", "b",
                       "i", "l", "i", "s", "t", "i", "c", "_", "s", "e", "a",
                       "r", "c", "h", "w", "o", "r", "d", "s">>})

\* The value of a field in the row of the data file, and what the stored
\* row holds for it under the name with the prefix.
SourceValue(name) ==
  IF source_row.format = "csv" THEN source_row.data[ColumnOf(name)]
  ELSE ValueAt(source_row.data, Split(name, <<".">>), 1)
StoredValue(name, prefix) ==
  IF source_row.format = "csv" THEN stored_row.value[CellOf(name)]
  ELSE With(Split(name, <<".">>), LAMBDA parts :
         ValueAt(stored_row.value,
                 [parts EXCEPT ![Len(parts)] = prefix \o @], 1))

\* The clause is the equality of a field and a string literal; the field
\* is the k-th token.
IsEqualityOfFieldAt(k) ==
  /\ Len(argument) = 1
  /\ Len(argument[1]) = 3
  /\ argument[1][3].cls = "OperatorToken"
  /\ argument[1][3].text \in {<<"=">>, <<"=", "=">>, <<"!", "=">>}
  /\ argument[1][k].cls = "FieldToken"
  /\ argument[1][3 - k].cls = "StringLiteralToken"

\* A row was loaded and a WHERE or HAVING clause rewritten that is the
\* equality of a pseudonym field with `related` and the literal of the
\* value the row has for the field.
RelatedEqualityAt(k) ==
  /\ progress = "done"
  /\ clause \in {"WHERE", "HAVING"}
  /\ source_row.format # "none"
  /\ stored_row.error = "none"
  /\ IsEqualityOfFieldAt(k)
  /\ With(GetEntryFromSchema(argument[1][k].text, user_schema), LAMBDA row :
       /\ Found(row)
       /\ row.encrypt = <<"p", "s", "e", "u", "d", "o", "n", "y", "m">>
       /\ "related" \in DOMAIN row)
  /\ Utf8Encode(SourceValue(argument[1][k].text))
       = Ords(LiteralValue(argument[1][3 - k]))

\* The clause with the literal replaced by '"%s"' % ciphertext and the
\* field by its pseudonym column.
RelatedEqualityText(k, ciphertext) ==
  With(<<RewriteField(argument[1][k], user_schema).text,
         <<"\"">> \o ciphertext \o <<"\"">>>>,
       LAMBDA operands :
         (IF clause = "WHERE" THEN <<"W", "H", "E", "R", "E", " ">> ELSE <<
             "H", "A", "V", "I", "N", "G", " ">>)
         \o BinaryText(operands[k], argument[1][3].text, operands[3 - k]))

\* The literal is rewritten to the ciphertext under the key of `related`,
\* and this is the ciphertext the stored row has for the field.
RelatedLiteralIsStored(k) ==
  With(PseudonymCipher_Encrypt(
         GeneratePseudonymCipherKey(
           MasterKey,
           GetEntryFromSchema(argument[1][k].text, user_schema).related).value,
         Unicode(SourceValue(argument[1][k].text))),
       LAMBDA ciphertext :
         /\ rewritten.error = "none"
         /\ rewritten.value = RelatedEqualityText(k, ciphertext.value)
         /\ StoredValue(argument[1][k].text, PSEUDONYM_PREFIX)
              = ciphertext.value)

\* C7: for a pseudonym field with related=R, at any depth of the schema,
\* the equality of the field and a string literal in WHERE or HAVING is
\* rewritten with the literal encrypted under PRF(master_key,
\* "pseudonym_" || R), whatever the table_id, and this ciphertext is the
\* one a table whose field shares R stored for the value at load time.
C7_RelatedLiteralMatchesStoredCiphertext ==
  \A k \in 1..2 : RelatedEqualityAt(k) => RelatedLiteralIsStored(k)

\* A table loaded from a CSV file and another table queried: the literal
\* of the rewritten clause is the stored ciphertext.
C7_CsvLiteralOfAnotherTable ==
  /\ load_table # query_table
  /\ source_row.format = "csv"
  /\ \E k \in 1..2 : RelatedEqualityAt(k) /\ RelatedLiteralIsStored(k)

\* The positions of the contains operators of the clause that have a field
\* and a string literal before them, and the rank of one among them.
ContainsPredicates ==
  {p \in 3..Len(argument[1]) :
     /\ argument[1][p].cls = "OperatorToken"
     /\ argument[1][p].text = <<"c", "o", "n", "t", "a", "i", "n", "s">>
     /\ argument[1][p - 1].cls = "StringLiteralToken"
     /\ argument[1][p - 2].cls = "FieldToken"}
RankOfPredicate(p) == Cardinality({q \in ContainsPredicates : q <= p})

\* The rows of the data file that hold a value of the field: its text and
\* the cell stored for its words.  A field of a repeated record has a row
\* for each record.
SearchedRows(name) ==
  With(Split(name, <<".">>), LAMBDA parts :
    IF Len(parts) = 2 /\ user_schema[ColumnOf(parts[1])].mode = <<"r", "e",
        "p", "e", "a", "t", "e", "d">>
      THEN {[text |-> source_row.data[parts[1]][r][parts[2]],
             cell |-> stored_row.value[parts[1]][r]
                        [SEARCHWORDS_PREFIX \o parts[2]]] :
              r \in 1..Len(source_row.data[parts[1]])}
      ELSE {[text |-> SourceValue(name),
             cell |-> StoredValue(name, SEARCHWORDS_PREFIX)]})

\* The separator and the max_word_sequence of an entry of the schema.
SeparatorOf(row) ==
  IF "searchwords_separator" \in DOMAIN row
    THEN Given(Ords(row.searchwords_separator)) ELSE NoneValue
MaxWordSequenceOf(row) ==
  IF "max_word_sequence" \in DOMAIN row THEN row.max_word_sequence ELSE 5

\* The cleaned words of the literal are between 1 and m words and a
\* contiguous run of the cleaned words of the text.
IsRunOfWords(literal, text, row) ==
  With(<<CleanUnicodeString(Ords(LiteralValue(literal)), SeparatorOf(row)),
         CleanUnicodeString(text, SeparatorOf(row))>>,
       LAMBDA words :
         /\ Len(words[1]) >= 1
         /\ Len(words[1]) <= MaxWordSequenceOf(row)
         /\ \E first \in 1..(Len(words[2]) - Len(words[1]) + 1) :
              SubSeq(words[2], first, first + Len(words[1]) - 1) = words[1])

\* The predicate at p is on a searchwords or probabilistic_searchwords
\* field and its literal a run of the words of the text.
SearchesWordsOf(p, text) ==
  With(GetEntryFromSchema(argument[1][p - 2].text, user_schema), LAMBDA row :
    /\ Found(row)
    /\ row.encrypt \in {<<"s", "e", "a", "r", "c", "h", "w", "o", "r", "d",
        "s">>,
                        <<"p", "r", "o", "b", "a", "b", "i", "l", "i", "s",
                            "t", "i", "c", "_", "s", "e", "a", "r", "c", "h",
                            "w", "o", "r", "d", "s">>}
    /\ IsRunOfWords(argument[1][p - 1], text, row))

\* to_base64(left(bytes(sha1(concat(left(cell, 24), keyed_hash))), 8)) is
\* one of the hashes of the cell.
HashIsStored(keyed_hash, cell) ==
  With(Split(cell, <<" ">>), LAMBDA hashes :
    \E j \in 2..Len(hashes) :
      hashes[j] = B64Encode(SubSeq(Sha1(Ords(SubSeq(cell, 1, 24)
                                             \o keyed_hash)), 1, 8)))

\* The keyed hash the rewritten clause has for its n-th contains: the text
\* between the quotes of the n-th concat.
KeyedHashOfPredicate(n) == Split(rewritten.value, <<"'">>)[2 * n]

\* A row was loaded and a WHERE clause with contains rewritten.
SearchedAndRewritten ==
  /\ progress = "done"
  /\ clause = "WHERE"
  /\ source_row.format # "none"
  /\ stored_row.error = "none"
  /\ Len(argument) = 1

\* C8: for a searchwords or probabilistic_searchwords field, a stored text
\* T and a string literal Q of the query whose cleaned words are between 1
\* and max_word_sequence words and a contiguous run of the cleaned words of
\* T, the keyed hash the WHERE rewrite embeds for Q, hashed with the first
\* 24 characters of the cell (its IV) as the server fragment does, is one
\* of the hashes stored in the cell of T.
C8_ContainedWordsMatchStoredHash ==
  SearchedAndRewritten =>
    \A p \in ContainsPredicates :
      \A row \in SearchedRows(argument[1][p - 2].text) :
        SearchesWordsOf(p, row.text) =>
          /\ rewritten.error = "none"
          /\ HashIsStored(KeyedHashOfPredicate(RankOfPredicate(p)), row.cell)

\* A clause of one contains whose words are in the text: its keyed hash is
\* stored in the cell.
C8_OneContainsMatches ==
  /\ SearchedAndRewritten
  /\ Cardinality(ContainsPredicates) = 1
  /\ \E p \in ContainsPredicates :
       \E row \in SearchedRows(argument[1][p - 2].text) :
         /\ SearchesWordsOf(p, row.text)
         /\ rewritten.error = "none"
         /\ HashIsStored(KeyedHashOfPredicate(1), row.cell)

\* The operands of the operator at stack[p]: the postfix expression of
\* each, in the order of the expression; none if the stack has too few.
OperandsOf(stack, p) ==
  With(GetSingleValue(SubSeq(stack, 1, p - 1)), LAMBDA last :
    IF last.error # "none" THEN <<>>
    ELSE IF stack[p].num_args = 1 THEN <<last.value>>
    ELSE With(GetSingleValue(SubSeq(stack, 1, last.rest)), LAMBDA first :
           IF first.error # "none" THEN <<>>
           ELSE <<first.value, last.value>>))

\* An expression with a token of an encrypted field.
HasEncryptedField(tokens) ==
  \E i \in 1..Len(tokens) : tokens[i].cls \in EncryptedTokenClasses

\* The token is the one a searchwords or probabilistic_searchwords field
\* of the clause is rewritten to.
IsSearchableField(token) ==
  \E q \in 1..Len(argument[1]) :
    /\ argument[1][q].cls = "FieldToken"
    /\ RewriteField(argument[1][q], user_schema) = token
    /\ GetEntryFromSchema(argument[1][q].text, user_schema).encrypt
         \in {<<"s", "e", "a", "r", "c", "h", "w", "o", "r", "d", "s">>,
              <<"p", "r", "o", "b", "a", "b", "i", "l", "i", "s", "t", "i",
                  "c", "_", "s", "e", "a", "r", "c", "h", "w", "o", "r", "d",
                  "s">>}

\* =, == or != of a Pseudonym token and a string literal or of two
\* Pseudonym tokens, and contains of a searchable field and a string
\* literal.
IsAllowedOnEncrypted(operator, operands) ==
  /\ Len(operands) = 2
  /\ Len(operands[1]) = 1
  /\ Len(operands[2]) = 1
  /\ \/ /\ operator.text \in {<<"=">>, <<"=", "=">>, <<"!", "=">>}
        /\ {operands[1][1].cls, operands[2][1].cls}
             \in {{"PseudonymToken", "StringLiteralToken"},
                  {"PseudonymToken"}}
     \/ /\ operator.text = <<"c", "o", "n", "t", "a", "i", "n", "s">>
        /\ IsSearchableField(operands[1][1])
        /\ operands[2][1].cls = "StringLiteralToken"

\* The operator at stack[p] has an operand with an encrypted field and is
\* none of the allowed ones.
IsForbiddenOperator(stack, p) ==
  /\ stack[p].cls = "OperatorToken"
  /\ With(OperandsOf(stack, p), LAMBDA operands :
       /\ \E n \in 1..Len(operands) : HasEncryptedField(operands[n])
       /\ ~IsAllowedOnEncrypted(stack[p], operands))

\* The WHERE or HAVING clause was rewritten and RewriteSelectionCriteria
\* called, with a stack that has a forbidden operator.
CriteriaWithForbiddenOperator ==
  /\ progress = "done"
  /\ clause \in {"WHERE", "HAVING"}
  /\ Len(argument) = 1
  /\ Len(argument[1]) > 0
  /\ With(RewritePostfixExpressions(argument[1], user_schema), LAMBDA stack :
       /\ stack.error = "none"
       /\ clause = "HAVING" =>
            \A k \in 1..Len(stack.value) :
              ~IllegalNestedAggregation(stack.value[k])
       /\ \E p \in 1..Len(stack.value) : IsForbiddenOperator(stack.value, p))

\* C9: RewriteSelectionCriteria raises BigqueryInvalidQueryError for every
\* WHERE or HAVING postfix expression in which a unary or binary operator
\* has an operand with an encrypted field token, unless the operator is
\* =, == or != on a Pseudonym token and a string literal or on two
\* Pseudonym tokens, or contains on a searchable field and a string
\* literal.
C9_OperatorOnEncryptedIsRejected ==
  CriteriaWithForbiddenOperator => rewritten.error = "BigqueryInvalidQueryError"

\* An expression with a forbidden operator that is rejected.
C9_ForbiddenOperatorRejected ==
  CriteriaWithForbiddenOperator /\ rewritten.error = "BigqueryInvalidQueryError"

\* The builtin function at expression[i] has an encrypted field in its
\* argument list.
IsFunctionOverEncrypted(expression, i) ==
  /\ expression[i].cls = "BuiltInFunctionToken"
  /\ With(GetSingleValue(SubSeq(expression, 1, i)), LAMBDA call :
       /\ call.error = "none"
       /\ HasEncryptedField(RewriteEncryptedFields(call.value, user_schema)))

\* The token at expression[i] is inside an argument of an aggregation.
IsInsideAggregation(expression, i) ==
  \E j \in (i + 1)..Len(expression) :
    /\ expression[j].cls = "AggregationFunctionToken"
    /\ With(GetSingleValue(SubSeq(expression, 1, j)), LAMBDA aggregation :
         aggregation.error = "none" /\ aggregation.rest < i)

\* A SELECT clause was rewritten.
SelectRewritten == progress = "done" /\ clause = "SELECT"

CountedExpressions ==
  {<<Field(name)>> :
     name \in {<<"Y", "e", "a", "r">>, <<"M", "a", "k", "e">>, <<"M", "o",
         "d", "e", "l">>, <<"D", "e", "s", "c", "r", "i", "p", "t", "i", "o",
         "n">>, <<"P", "r", "i", "c", "e">>,
               <<"I", "n", "v", "o", "i", "c", "e", "_", "P", "r", "i", "c",
                   "e">>, <<"H", "o", "l", "d", "b", "a", "c", "k", "_", "P",
                   "e", "r", "c", "e", "n", "t", "a", "g", "e">>}}
  \cup {<<Field(name), IntToken(1), Operator(<<"+">>)>> :
          name \in {<<"Y", "e", "a", "r">>, <<"M", "a", "k", "e">>, <<"P",
              "r", "i", "c", "e">>}}

\* COUNT(DISTINCT x[, n]) and TOP(x[, n[, m]])
DistinctCountSelects ==
  {<<x \o <<AggregationFunctionToken(DISTINCTCOUNT, 1)>>>> :
     x \in CountedExpressions}
  \cup {<<x \o <<IntToken(n), AggregationFunctionToken(DISTINCTCOUNT, 2)>>>> :
          x \in CountedExpressions, n \in {2, 10}}
TopSelects ==
  {<<x \o <<AggregationFunctionToken(<<"T", "O", "P">>,
      1)>>>> : x \in CountedExpressions}
  \cup {<<x \o <<IntToken(n), AggregationFunctionToken(<<"T", "O", "P">>,
      2)>>>> :
          x \in CountedExpressions, n \in {5}}
  \cup {<<x \o <<IntToken(5), IntToken(m),
                 AggregationFunctionToken(<<"T", "O", "P">>, 3)>>>> :
          x \in CountedExpressions, m \in {1, 2}}


\* The cars with a column of floats in the clear that is named nan.
SumSchema == CarsSchema \o <<Entry(<<"n", "a", "n">>, <<"f", "l", "o", "a",
    "t">>, <<"n", "u", "l", "l", "a", "b", "l", "e">>, <<"n", "o", "n", "e">>)>>

\* The arguments of SUM and AVG: a homomorphic column alone, with a column,
\* 0 or 2 under each operator of the arithmetic, under a builtin and a
\* unary minus, and with a constant and a sum, product or quotient.
SumOperands ==
  {Field(name) :
     name \in {<<"Y", "e", "a", "r">>, <<"M", "a", "k", "e">>, <<"M", "o",
         "d", "e", "l">>, <<"D", "e", "s", "c", "r", "i", "p", "t", "i", "o",
         "n">>, <<"P", "r", "i", "c", "e">>,
               <<"H", "o", "l", "d", "b", "a", "c", "k", "_", "P", "e", "r",
                   "c", "e", "n", "t", "a", "g", "e">>, <<"n", "a", "n">>}}
  \cup {IntToken(0), IntToken(2)}
Arithmetic ==
  {<<"+">>,
   <<"-">>,
   <<"*">>,
   <<"/">>}
SumArguments ==
  {<<y>> : y \in SumOperands \cup {Field(<<"I", "n", "v", "o", "i", "c", "e",
      "_", "P", "r", "i", "c", "e">>)}}
  \cup {<<Field(<<"I", "n", "v", "o", "i", "c", "e", "_", "P", "r", "i", "c",
      "e">>), y, Operator(s)>> :
          y \in SumOperands, s \in Arithmetic}
  \cup {<<y, Field(<<"I", "n", "v", "o", "i", "c", "e", "_", "P", "r", "i",
      "c", "e">>), Operator(s)>> :
          y \in SumOperands, s \in Arithmetic}
  \cup {<<Field(<<"I", "n", "v", "o", "i", "c", "e", "_", "P", "r", "i", "c",
      "e">>), Function(<<"a", "b", "s">>)>>,
         <<Field(<<"I", "n", "v", "o", "i", "c", "e", "_", "P", "r", "i", "c",
             "e">>), Unary(<<"-">>)>>,
         <<Field(<<"Y", "e", "a", "r">>), Field(<<"Y", "e", "a", "r">>),
             Operator(<<"*">>),
           Field(<<"I", "n", "v", "o", "i", "c", "e", "_", "P", "r", "i", "c",
               "e">>), Operator(<<"+">>)>>}
  \cup {<<Field(<<"I", "n", "v", "o", "i", "c", "e", "_", "P", "r", "i", "c",
      "e">>), IntToken(2), y, Operator(s), Operator(t)>> :
          y \in {Field(<<"Y", "e", "a", "r">>), IntToken(0), IntToken(2)},
          s \in Arithmetic, t \in Arithmetic}
SumSelects ==
  {<<e \o <<AggregationFunctionToken(name, 1)>>>> :
     e \in SumArguments, name \in {<<"S", "U", "M">>, <<"A", "V", "G">>}}

SelectScenarios ==
  {Scenario(CarsSchema, <<"1">>, <<"1">>, NoRow, "SELECT", expressions) :
     expressions \in DistinctCountSelects \cup TopSelects}
  \cup {Scenario(SumSchema, <<"1">>, <<"1">>, NoRow, "SELECT", expressions) :
          expressions \in SumSelects}

(***************************************************************************)
(* query_lib.py: _GroupByClause.Rewrite.  The argument of the clause is    *)
(* the list of its columns.                                                *)
(***************************************************************************)

\* ' '.join(query.split(' ')[:-2]): a query without its ' AS <alias>'
ExpressionOfQuery(query) ==
  With(Split(query, <<" ">>), LAMBDA words :
    Join(<<" ">>, SubSeq(words, 1, Len(words) - 2)))

\* s.replace('.', PERIOD_REPLACEMENT)
ReplacePeriods(s) == Join(PERIOD_REPLACEMENT, Split(s, <<".">>))

\* list.index(x), for an x in the list
IndexOf(list, x) ==
  (CHOOSE k \in 1..Len(list) :
     list[k] = x /\ \A j \in 1..(k - 1) : list[j] # x) - 1

\* QueryManifest.GetColumnAliasForName(column_name, generate=False): the
\* alias, or <<>> for None.
GetColumnAliasForName(manifest, column_name) ==
  With({k \in 1..Len(manifest.columns) :
          manifest.columns[k].name = column_name}, LAMBDA found :
    IF found = {} THEN <<>>
    ELSE manifest.columns[CHOOSE k \in found : TRUE].alias)

\* The first loop of _GroupByClause.Rewrite on one column
GroupByCheck(column, schema) ==
  With(GetEntryFromSchema(column.text, schema), LAMBDA row :
    IF ~Found(row) THEN Raised("TypeError")
    ELSE IF "encrypt" \notin DOMAIN row THEN Raised("KeyError")
    ELSE IF StartsWith(row.encrypt, <<"p", "r", "o", "b", "a", "b", "i", "l",
        "i", "s", "t", "i", "c">>)
      THEN Raised("BigqueryInvalidQueryError")
    ELSE IF row.encrypt = <<"h", "o", "m", "o", "m", "o", "r", "p", "h", "i",
        "c">>
      THEN Raised("BigqueryInvalidQueryError")
    ELSE IF row.encrypt = <<"s", "e", "a", "r", "c", "h", "w", "o", "r", "d",
        "s">>
      THEN Raised("BigqueryInvalidQueryError")
    ELSE Returned(row.encrypt))

\* The second loop of _GroupByClause.Rewrite on one rewritten column
GroupByColumn(column, unencrypted_expression_list, manifest) ==
  IF \E k \in 1..Len(unencrypted_expression_list) :
       unencrypted_expression_list[k] = column.text
    THEN UNENCRYPTED_ALIAS_PREFIX
         \o StrOfInt(IndexOf(unencrypted_expression_list, column.text))
         \o <<"_">>
  ELSE IF manifest.given /\ GetColumnAliasForName(manifest, column.text) # <<>>
    THEN GetColumnAliasForName(manifest, column.text)
  ELSE ReplacePeriods(column.text)

\* _GroupByClause.Rewrite without the first loop
GroupByClause_Rewrite_Unchecked(argument_list, schema, select_clause, manifest) ==
  IF Len(argument_list) = 0 THEN Returned(<<>>)
  ELSE IF ~select_clause.given THEN Raised("ValueError")
  ELSE
    With(RewritePostfixExpressions(argument_list, schema),
         LAMBDA rewritten_argument :
      IF rewritten_argument.error # "none" THEN rewritten_argument
      ELSE
        With([k \in 1..Len(select_clause.unencrypted_queries) |->
                ExpressionOfQuery(select_clause.unencrypted_queries[k])],
             LAMBDA unencrypted_expression_list :
          Returned(
            <<"G", "R", "O", "U", "P", " ", "B", "Y", " ">>
            \o Join(<<",", " ">>,
                    [i \in 1..Len(rewritten_argument.value) |->
                       GroupByColumn(rewritten_argument.value[i],
                                     unencrypted_expression_list,
                                     manifest)]))))

\* _GroupByClause.Rewrite
GroupByClause_Rewrite(argument_list, schema, select_clause, manifest) ==
  IF Len(argument_list) = 0 THEN Returned(<<>>)
  ELSE IF ~select_clause.given THEN Raised("ValueError")
  ELSE
    With(FirstError([k \in 1..Len(argument_list) |->
                       GroupByCheck(argument_list[k], schema)]),
         LAMBDA error :
      IF error # "none" THEN Raised(error)
      ELSE
        With(RewritePostfixExpressions(argument_list, schema),
             LAMBDA rewritten_argument :
          IF rewritten_argument.error # "none" THEN rewritten_argument
          ELSE
            With([k \in 1..Len(select_clause.unencrypted_queries) |->
                    ExpressionOfQuery(select_clause.unencrypted_queries[k])],
                 LAMBDA unencrypted_expression_list :
              Returned(
                <<"G", "R", "O", "U", "P", " ", "B", "Y", " ">>
                \o Join(<<",", " ">>,
                        [i \in 1..Len(rewritten_argument.value) |->
                           GroupByColumn(rewritten_argument.value[i],
                                         unencrypted_expression_list,
                                         manifest)])))))

\* _GroupByClause.Rewrite; the token classes get their original_name when
\* the columns are rewritten.
GroupByRewrite ==
  /\ clause = "GROUP BY"
  /\ ReadyToRewrite
  /\ rewritten' = GroupByClause_Rewrite(argument, user_schema,
                                        extra_args.select_clause,
                                        extra_args.manifest)
  /\ original_name' =
       IF rewritten'.error \in {"TypeError", "KeyError", "ValueError",
                                "BigqueryInvalidQueryError"}
         THEN original_name
         ELSE OriginalNameAfter(original_name, argument, user_schema)
  /\ progress' = "done"
  /\ UNCHANGED <<user_schema, load_table, query_table, source_row, stored_row,
                 clause, argument, extra_args>>
  /\ QueryOnly

\* The SELECT clauses before a GROUP BY: their unencrypted queries, and
\* the manifest after them.  The digest of a column name is not computed:
\* its alias in the manifest is HP and the codes of its characters.
CarsSelects ==
  {<<<<Field(<<"Y", "e", "a", "r">>)>>>>,
   <<<<Field(<<"M", "a", "k", "e">>)>>>>,
   <<<<Field(<<"Y", "e", "a", "r">>), IntToken(1), Operator(<<"+">>)>>, <<Field(<<
       "Y", "e", "a", "r">>)>>,
     <<Field(<<"M", "a", "k", "e">>)>>>>}
PersonsSelects ==
  {<<<<Field(<<"k", "i", "n", "d">>)>>, <<Field(<<"s", "p", "o", "u", "s",
      "e", ".", "s", "p", "o", "u", "s", "e", "N", "a", "m", "e">>)>>>>,
   <<<<Field(<<"f", "u", "l", "l", "N", "a", "m", "e">>)>>>>}
RewrittenSelectClause(select_argument, schema) ==
  [given |-> TRUE,
   unencrypted_queries |->
     ExtractUnencryptedQueries(
       RewriteAllPostfixExpressions(select_argument, schema).value).queries]
GenerateColumnAlias(column_name) ==
  <<"H", "P">> \o AllTokens([k \in 1..Len(column_name) |->
                       StrOfNat(Ord(column_name[k]))])
ManifestAfter(select_argument, schema) ==
  With(AllTokens(select_argument), LAMBDA tokens :
    [given |-> TRUE,
     columns |->
       AllTokens(
         [k \in 1..Len(tokens) |->
            IF RewriteField(tokens[k], schema).cls \in EncryptedTokenClasses
              THEN <<[name |-> RewriteField(tokens[k], schema).text,
                      alias |-> GenerateColumnAlias(
                                  RewriteField(tokens[k], schema).text)],
                     [name |-> tokens[k].text,
                      alias |-> GenerateColumnAlias(
                                  RewriteField(tokens[k], schema).text)]>>
              ELSE <<>>])])

\* The GROUP BY clauses: one or two columns of the cars, and one of the
\* persons, after a SELECT clause, with a manifest or without.
GroupByColumns ==
  {<<"Y", "e", "a", "r">>, <<"M", "a", "k", "e">>, <<"M", "o", "d", "e", "l">>, <<
      "D", "e", "s", "c", "r", "i", "p", "t", "i", "o", "n">>, <<"P", "r",
      "i", "c", "e">>, <<"I", "n", "v", "o", "i", "c", "e", "_", "P", "r",
      "i", "c", "e">>}
GroupByArguments ==
  {<<Field(name)>> : name \in GroupByColumns}
  \cup {<<Field(first), Field(second)>> :
          first \in GroupByColumns, second \in GroupByColumns}
PersonsArguments ==
  {<<Field(<<"k", "i", "n", "d">>)>>,
   <<Field(<<"s", "p", "o", "u", "s", "e", ".", "s", "p", "o", "u", "s", "e",
       "N", "a", "m", "e">>)>>,
   <<Field(<<"f", "u", "l", "l", "N", "a", "m", "e">>), Field(<<"s", "p", "o",
       "u", "s", "e", ".", "s", "p", "o", "u", "s", "e", "N", "a", "m", "e">>)>>
       }
GroupByScenario(schema, columns, select_argument, with_manifest) ==
  Scenario(schema, <<"1">>, <<"1">>, NoRow, "GROUP BY", columns)
  @@ [extra_args |->
        [alias |-> <<>>,
         manifest |-> IF with_manifest
                        THEN ManifestAfter(select_argument, schema)
                        ELSE NoManifest,
         select_clause |-> RewrittenSelectClause(select_argument, schema)]]
GroupByScenarios ==
  {GroupByScenario(CarsSchema, columns, select_argument, with_manifest) :
     columns \in GroupByArguments, select_argument \in CarsSelects,
     with_manifest \in BOOLEAN}
  \cup {GroupByScenario(SpouseSchema(TRUE), columns, select_argument,
                        with_manifest) :
          columns \in PersonsArguments, select_argument \in PersonsSelects,
          with_manifest \in BOOLEAN}

\* SELECT lists of two and three items with and without AS: a column in
\* the clear, an encrypted one, a literal, an aggregation of each, sums, and
\* the labels a and b, which are no columns of the cars but aliases.
SelectItems ==
  {<<Field(<<"Y", "e", "a", "r">>)>>,
   <<Field(<<"M", "a", "k", "e">>)>>,
   <<IntToken(1)>>,
   <<Field(<<"a">>)>>,
   <<Field(<<"Y", "e", "a", "r">>), AggregationFunctionToken(<<"S", "U", "M">>,
       1)>>,
   <<Field(<<"M", "a", "k", "e">>), AggregationFunctionToken(<<"C", "O", "U",
       "N", "T">>, 1)>>,
   <<Field(<<"Y", "e", "a", "r">>), IntToken(1), Operator(<<"+">>)>>,
   <<Field(<<"M", "a", "k", "e">>), Field(<<"Y", "e", "a", "r">>), Operator(<<
       "+">>)>>,
   <<Field(<<"a">>), IntToken(1), Operator(<<"+">>)>>,
   <<Field(<<"a">>), Field(<<"b">>), Operator(<<"+">>)>>}
NoAlias == <<>>
AliasNames ==
  {NoAlias,
   <<"a">>,
   <<"b">>}
\* The argument of the AS clause: the index of an item to its alias.
AliasOf(names) ==
  [i \in {k \in 1..Len(names) : names[k] # NoAlias} |-> names[i]]
SelectAsScenario(items, names) ==
  Scenario(CarsSchema, <<"1">>, <<"1">>, NoRow, "SELECT", items)
  @@ [extra_args |->
        [alias |-> AliasOf(names), manifest |-> NoManifest,
         select_clause |-> NoSelectClause]]
SelectAsScenarios ==
  {SelectAsScenario(<<x, y>>, <<m, n>>) :
     x \in SelectItems, y \in SelectItems, m \in AliasNames, n \in AliasNames}
  \cup {SelectAsScenario(<<<<Field(<<"Y", "e", "a", "r">>),
      IntToken(1), Operator(<<"+">>)>>, x, y>>,
                          <<<<"a">>, <<"b">>, NoAlias>>) :
          x \in SelectItems, y \in SelectItems}

SelectInit ==
  \/ \E s \in SelectScenarios : StartOf(s)
  \/ \E s \in GroupByScenarios : StartOf(s)
  \/ \E s \in SelectAsScenarios : StartOf(s)

InitSelect == SelectInit /\ ClientIdle /\ CryptoIdle /\ LibraryIdle

NextSelect ==
  \/ SelectRewrite
  \/ GroupByRewrite

SpecSelect == InitSelect /\ [][NextSelect]_vars

\* The arguments of the function or aggregation before stack[end + 1],
\* `count` of them, each a postfix expression, in the order of the query;
\* fewer if the stack has too few.
RECURSIVE ArgumentsBefore(_, _, _)
ArgumentsBefore(stack, end, count) ==
  IF count <= 0 THEN <<>>
  ELSE With(GetSingleValue(SubSeq(stack, 1, end)), LAMBDA single :
         IF single.error # "none" THEN <<>>
         ELSE Append(ArgumentsBefore(stack, single.rest, count - 1),
                     single.value))

\* The expression has a field of the schema that is encrypted, but not as
\* a pseudonym: probabilistic, searchwords or homomorphic.
HasNonPseudonymField(tokens) ==
  \E k \in 1..Len(tokens) :
    /\ tokens[k].cls = "FieldToken"
    /\ RewriteField(tokens[k], user_schema).cls
         \in EncryptedTokenClasses \ {"PseudonymToken"}

\* The SELECT clause is one aggregation of this name, the last token of
\* its expression, with all its arguments there; x is the first of them.
IsSelectOf(name) ==
  /\ SelectRewritten
  /\ Len(argument) = 1
  /\ Len(argument[1]) > 1
  /\ With(argument[1][Len(argument[1])], LAMBDA top :
       /\ top.cls = "AggregationFunctionToken"
       /\ top.text = name
       /\ Len(ArgumentsBefore(argument[1], Len(argument[1]) - 1,
                              top.num_args)) = top.num_args)
FirstArgument ==
  ArgumentsBefore(argument[1], Len(argument[1]) - 1,
                  argument[1][Len(argument[1])].num_args)[1]

\* C11: rewriting COUNT(DISTINCT x) or COUNT(DISTINCT x, n) raises
\* BigqueryInvalidQueryError whenever x references a probabilistic,
\* searchwords or homomorphic field, whatever the number of arguments of
\* the aggregation.
C11_DistinctCountOverNonPseudonymIsRejected ==
  IsSelectOf(DISTINCTCOUNT) /\ HasNonPseudonymField(FirstArgument)
    => rewritten.error = "BigqueryInvalidQueryError"

\* COUNT(DISTINCT x) of one argument over such a field was rejected.
C11_DistinctCountOfOneArgumentRejected ==
  /\ IsSelectOf(DISTINCTCOUNT)
  /\ argument[1][Len(argument[1])].num_args = 1
  /\ HasNonPseudonymField(FirstArgument)
  /\ rewritten.error = "BigqueryInvalidQueryError"

\* The infix of the arguments of the aggregation of the clause, with the
\* fields rewritten to their columns.
InfixOfArguments ==
  With(ArgumentsBefore(argument[1], Len(argument[1]) - 1,
                       argument[1][Len(argument[1])].num_args),
       LAMBDA arguments :
         [k \in 1..Len(arguments) |->
            ToInfix(RewriteEncryptedFields(arguments[k], user_schema)).value])

\* C12: rewriting TOP(x), TOP(x, n) or TOP(x, n, m) raises
\* BigqueryInvalidQueryError whenever x references a probabilistic,
\* searchwords or homomorphic field, and otherwise emits
\* TOP(<infix of x>[, n[, m]]) with the arguments in their order: the
\* clause selects it first.
C12_TopRejectedOrEmittedInOrder ==
  IsSelectOf(<<"T", "O", "P">>) =>
    IF HasNonPseudonymField(FirstArgument)
      THEN rewritten.error = "BigqueryInvalidQueryError"
      ELSE /\ rewritten.error = "none"
           /\ StartsWith(rewritten.value,
                         <<"S", "E", "L", "E", "C", "T", " ">> \o CallText(<<
                             "T", "O", "P">>, InfixOfArguments))

\* TOP of three arguments over a pseudonym column was emitted with its
\* arguments in their order.
C12_TopOfThreeArgumentsEmitted ==
  /\ IsSelectOf(<<"T", "O", "P">>)
  /\ argument[1][Len(argument[1])].num_args = 3
  /\ ~HasNonPseudonymField(FirstArgument)
  /\ HasEncryptedField(RewriteEncryptedFields(FirstArgument, user_schema))
  /\ rewritten.error = "none"
  /\ StartsWith(rewritten.value,
                <<"S", "E", "L", "E", "C", "T", " ">> \o CallText(<<"T", "O",
                    "P">>, InfixOfArguments))

(***************************************************************************)
(* SUM and AVG                                                             *)
(***************************************************************************)

\* The clause selects SUM(e) or AVG(e) for an expression e, and e.
IsSumSelect ==
  /\ SelectRewritten
  /\ Len(argument) = 1
  /\ Len(argument[1]) > 1
  /\ With(argument[1][Len(argument[1])], LAMBDA top :
        /\ top.cls = "AggregationFunctionToken"
        /\ top.text \in {<<"S", "U", "M">>, <<"A", "V", "G">>}
        /\ top.num_args = 1)
  /\ ToInfix(SubSeq(argument[1], 1, Len(argument[1]) - 1)).error = "none"
SumArgumentOf == SubSeq(argument[1], 1, Len(argument[1]) - 1)

\* An expression with a column, and with a column of one of the kinds.
HasAnyField(tokens) == \E k \in 1..Len(tokens) : tokens[k].cls = "FieldToken"
HasFieldOf(tokens, kinds) ==
  \E k \in 1..Len(tokens) :
    /\ tokens[k].cls = "FieldToken"
    /\ RewriteField(tokens[k], user_schema).cls \in kinds
HasHomomorphic(tokens) ==
  HasFieldOf(tokens, {"HomomorphicIntToken", "HomomorphicFloatToken"})

\* In e an operand with a homomorphic column is multiplied by an operand
\* with a column; an operand with a homomorphic column is a divisor, or is
\* divided by an operand with a column; a homomorphic column is in the
\* argument list of a builtin.
MultipliedByField(e, Counts(_)) ==
  \E p \in 1..Len(e) :
    /\ e[p].cls = "OperatorToken" /\ e[p].num_args = 2 /\ e[p].text = <<"*">>
    /\ With(OperandsOf(e, p), LAMBDA operands :
         /\ Len(operands) = 2
         /\ \/ HasHomomorphic(operands[1]) /\ Counts(operands[2])
            \/ HasHomomorphic(operands[2]) /\ Counts(operands[1]))
InDivision(e, Counts(_)) ==
  \E p \in 1..Len(e) :
    /\ e[p].cls = "OperatorToken" /\ e[p].num_args = 2 /\ e[p].text = <<"/">>
    /\ With(OperandsOf(e, p), LAMBDA operands :
         /\ Len(operands) = 2
         /\ \/ HasHomomorphic(operands[2])
            \/ HasHomomorphic(operands[1]) /\ Counts(operands[2]))
UnderBuiltin(e) ==
  \E p \in 1..Len(e) :
    /\ e[p].cls = "BuiltInFunctionToken"
    /\ With(GetSingleValue(SubSeq(e, 1, p)), LAMBDA call :
         call.error = "none" /\ HasHomomorphic(call.value))
NotHomomorphic(e) ==
  HasFieldOf(e, {"PseudonymToken", "ProbabilisticToken", "SearchwordsToken"})

GroupByRewritten ==
  /\ progress = "done"
  /\ clause = "GROUP BY"
  /\ Len(argument) > 0
  /\ \A k \in 1..Len(argument) :
       Found(GetEntryFromSchema(argument[k].text, user_schema))

\* A column of the clause is probabilistic, probabilistic_searchwords,
\* searchwords or homomorphic.
HasUngroupableColumn ==
  \E k \in 1..Len(argument) :
    GetEntryFromSchema(argument[k].text, user_schema).encrypt
      \in {<<"p", "r", "o", "b", "a", "b", "i", "l", "i", "s", "t", "i", "c">>,
           <<"p", "r", "o", "b", "a", "b", "i", "l", "i", "s", "t", "i", "c",
               "_", "s", "e", "a", "r", "c", "h", "w", "o", "r", "d", "s">>,
           <<"s", "e", "a", "r", "c", "h", "w", "o", "r", "d", "s">>,
           <<"h", "o", "m", "o", "m", "o", "r", "p", "h", "i", "c">>}

\* What stands for the column in the rewritten clause: the column with the
\* prefix of its pseudonym (its periods replaced as they are in the SELECT
\* clause), the alias the manifest has for it, or the alias ue<i>_ of the
\* unencrypted query of the SELECT clause that is the column.
GroupedAs(column) ==
  With(RewriteField(column, user_schema).text, LAMBDA name :
    {ReplacePeriods(name)}
    \cup {extra_args.manifest.columns[k].alias :
            k \in {j \in 1..Len(extra_args.manifest.columns) :
                     extra_args.manifest.columns[j].name = name}}
    \cup {UNENCRYPTED_ALIAS_PREFIX \o StrOfInt(i - 1) \o <<"_">> :
            i \in {j \in 1..Len(extra_args.select_clause.unencrypted_queries) :
                     extra_args.select_clause.unencrypted_queries[j]
                       = name \o <<" ", "A", "S", " ">>
                           \o UNENCRYPTED_ALIAS_PREFIX
                         \o StrOfInt(j - 1) \o <<"_">>}})

\* C14: rewriting GROUP BY raises BigqueryInvalidQueryError for every list
\* with a probabilistic, probabilistic_searchwords, searchwords or
\* homomorphic column; for every other list of columns of the schema it
\* returns GROUP BY and, for each column in its place, the column with its
\* pseudonym prefix, its manifest alias or the ue<i>_ alias of the SELECT
\* clause.
C14_GroupByRejectsOrEmitsColumns ==
  GroupByRewritten =>
    IF HasUngroupableColumn THEN rewritten.error = "BigqueryInvalidQueryError"
    ELSE /\ rewritten.error = "none"
         /\ StartsWith(rewritten.value, <<"G", "R", "O", "U", "P", " ", "B",
             "Y", " ">>)
         /\ With(Split(SubSeq(rewritten.value, 10, Len(rewritten.value)),
                       <<",", " ">>),
                 LAMBDA items :
                   /\ Len(items) = Len(argument)
                   /\ \A k \in 1..Len(items) :
                        items[k] \in GroupedAs(argument[k]))

\* A pseudonym column with an alias in the manifest after a plaintext
\* column that the SELECT clause has as ue1_.
C14_GroupedByAliases ==
  /\ GroupByRewritten
  /\ ~HasUngroupableColumn
  /\ extra_args.manifest.given
  /\ rewritten.error = "none"
  /\ rewritten.value
       = <<"G", "R", "O", "U", "P", " ", "B", "Y", " ">>
           \o UNENCRYPTED_ALIAS_PREFIX \o <<"1", "_", ",", " ">>
         \o GenerateColumnAlias(PSEUDONYM_PREFIX \o <<"M", "a", "k", "e">>)


(***************************************************************************)
(* The aliases of the SELECT list and the expressions in the clear.        *)
(***************************************************************************)

\* The items whose alias the token names: those given the alias `text`.
ItemsWithAlias(text) == {j \in DOMAIN extra_args.alias : extra_args.alias[j] = text}

\* Token k of item i names the alias of an earlier item.
NamesEarlierAlias(i, k) ==
  /\ argument[i][k].cls = "FieldToken"
  /\ \E j \in ItemsWithAlias(argument[i][k].text) : j < i

\* Token k of item i names the alias of item i or of a later item, and of no
\* earlier one.
NamesLaterAlias(i, k) ==
  /\ argument[i][k].cls = "FieldToken"
  /\ ItemsWithAlias(argument[i][k].text) # {}
  /\ \A j \in ItemsWithAlias(argument[i][k].text) : j >= i

HasLaterAlias ==
  \E i \in 1..Len(argument) : \E k \in 1..Len(argument[i]) : NamesLaterAlias(i, k)

\* C16: in the rewriting of a SELECT list an item that names no alias of an
\* earlier item keeps its tokens (a token is replaced by the postfix of item
\* j only for j earlier), and a list with an item that names the alias of
\* itself or of a later item is rejected with an error.
C16_LaterAliasIsRejected ==
  SelectRewritten =>
    /\ \A i \in 1..Len(argument) :
         (\A k \in 1..Len(argument[i]) : ~NamesEarlierAlias(i, k))
           => ReplaceAliases(argument, extra_args.alias)[i] = argument[i]
    /\ HasLaterAlias => rewritten.error # "none"

\* C16: SELECT Year + 1 AS a, a + 1: the alias of the first item has been
\* replaced by its expression in the second.
C16_EarlierAliasReplaced ==
  /\ SelectRewritten
  /\ Len(argument) = 2
  /\ DOMAIN extra_args.alias = {1}
  /\ rewritten.error = "none"
  /\ rewritten.value = <<"S", "E", "L", "E", "C", "T", " ", "(", "Y", "e",
      "a", "r", " ", "+", " ", "1", ")", " ", "A", "S", " ">>
      \o UNENCRYPTED_ALIAS_PREFIX
                       \o <<"0", "_", ",", " ", "(", "(", "Y", "e", "a", "r",
                           " ", "+", " ", "1", ")", " ", "+", " ", "1", ")",
                           " ", "A", "S", " ">> \o UNENCRYPTED_ALIAS_PREFIX \o <<
                           "1", "_">>

\* What _SelectClause.Rewrite keeps of the select list: the stacks left by
\* _ExtractUnencryptedQueries and the queries it returned.
Lowered ==
  With(RewriteSelectExpressions(argument, extra_args.alias, user_schema),
       LAMBDA table_expressions : ExtractUnencryptedQueries(table_expressions.value))

\* Item i has become the single token ue<n>_ of an unencrypted query, and
\* '<expr> AS ue<n>_' is among the columns asked of the server.
IsUnencryptedQuery(stacks, i) ==
  /\ Len(stacks[i]) = 1
  /\ stacks[i][1].cls = "UnencryptedQueryToken"
  /\ StartsWith(stacks[i][1].text, UNENCRYPTED_ALIAS_PREFIX)
  /\ IsSubstring(<<" ", "A", "S", " ">> \o stacks[i][1].text, rewritten.value)

\* Item i, its aliases replaced, names no encrypted column of the schema.
NamesNoEncryptedField(i) ==
  With(ReplaceAliases(argument, extra_args.alias)[i], LAMBDA expression :
    \A k \in 1..Len(expression) :
      expression[k].cls = "FieldToken" =>
        With(GetEntryFromSchema(expression[k].text, user_schema), LAMBDA row :
          ~Found(row) \/ row.encrypt = <<"n", "o", "n", "e">>))

\* Item i is a single literal, a single field or a single aggregation.
IsSingleTerm(i) ==
  With(ReplaceAliases(argument, extra_args.alias)[i], LAMBDA expression :
    \/ Len(expression) = 1
    \/ expression[Len(expression)].cls = "AggregationFunctionToken")

\* The select list has been rewritten without an error.
SelectLowered == SelectRewritten /\ rewritten.error = "none"

MaxTableRows == 3

\* Bound: the largest value of a cell of the tables sorted here.
MaxCell == 2

\* The cells of a table: row_values.append(str(ans)) in _ComputeRows, the
\* values as they are printed.
Cells == {StrOfInt(n) : n \in 1..MaxCell}

\* a <= b of two str: by the first character that differs, a prefix first.
RECURSIVE StrLessEq(_, _)
StrLessEq(a, b) ==
  IF a = <<>> THEN TRUE
  ELSE IF b = <<>> THEN FALSE
  ELSE IF Ord(a[1]) < Ord(b[1]) THEN TRUE
  ELSE IF Ord(a[1]) > Ord(b[1]) THEN FALSE
  ELSE StrLessEq(Tail(a), Tail(b))

\* sorted(list, key=lambda v: v[0]): list.sort is stable; here by insertion,
\* a pair going behind every pair whose key is not larger.
RECURSIVE InsertByKey(_, _)
InsertByKey(sorted_list, pair) ==
  IF sorted_list = <<>> THEN <<pair>>
  ELSE IF StrLessEq(sorted_list[Len(sorted_list)][1], pair[1]) THEN Append(sorted_list, pair)
  ELSE Append(InsertByKey(SubSeq(sorted_list, 1, Len(sorted_list) - 1), pair),
              sorted_list[Len(sorted_list)])

RECURSIVE SortedByKey(_)
SortedByKey(unsorted_list) ==
  IF unsorted_list = <<>> THEN <<>>
  ELSE InsertByKey(SortedByKey(SubSeq(unsorted_list, 1, Len(unsorted_list) - 1)),
                   unsorted_list[Len(unsorted_list)])

\* An order that takes the keys in the other direction without keeping the
\* order of equal keys: the sorted list read backwards.
Sorted_Backwards(unsorted_list, reverse_sort) ==
  IF reverse_sort THEN Reverse(SortedByKey(unsorted_list))
  ELSE SortedByKey(unsorted_list)

\* sorted(unsorted_list, key=..., reverse=reverse_sort): with reverse the list
\* is reversed, sorted and reversed again, so equal keys keep their order.
Sorted(unsorted_list, reverse_sort) ==
  IF reverse_sort THEN Reverse(SortedByKey(Reverse(unsorted_list)))
  ELSE SortedByKey(unsorted_list)

\* field = argument.split(' ')[0]
OrderField(order_argument) == Split(order_argument, <<" ">>)[1]

\* reverse_sort = len(argument.split(' ')) == 2 and argument.split(' ')[1].lower() == 'desc'
ReverseSort(order_argument) ==
  With(Split(order_argument, <<" ">>), LAMBDA parts :
    Len(parts) = 2 /\ LowerStr(parts[2]) = <<"d", "e", "s", "c">>)

\* for i in xrange(len(column_names)): if column_names[i]['name'] == field:
\*   for j in current_index_sort: unsorted_list.append((table_rows[j][i], j))
RECURSIVE UnsortedList(_, _, _, _, _)
UnsortedList(field, names, rows, current_index_sort, i) ==
  IF i > Len(names) THEN <<>>
  ELSE (IF names[i].name = field
        THEN [k \in 1..Len(current_index_sort) |->
                <<rows[current_index_sort[k]][i], current_index_sort[k]>>]
        ELSE <<>>)
       \o UnsortedList(field, names, rows, current_index_sort, i + 1)

\* One round of the loop over reversed(self._argument).
SortRound(order_argument, names, rows, current_index_sort) ==
  With(Sorted(UnsortedList(OrderField(order_argument), names, rows, current_index_sort, 1),
              ReverseSort(order_argument)),
       LAMBDA sorted_list : [k \in 1..Len(sorted_list) |-> sorted_list[k][2]])

\* for argument in reversed(self._argument): the arguments m, m - 1, .., 1.
RECURSIVE SortRounds(_, _, _, _, _)
SortRounds(order_arguments, m, names, rows, current_index_sort) ==
  IF m = 0 THEN current_index_sort
  ELSE SortRounds(order_arguments, m - 1, names, rows,
                  SortRound(order_arguments[m], names, rows, current_index_sort))

\* The check that each ORDER BY argument is a column of the table.
IsNamedColumn(order_argument, names) ==
  \E i \in 1..Len(names) : names[i].name = OrderField(order_argument)

\* _OrderByClause.SortTable
SortTable(order_arguments, names, rows) ==
  IF order_arguments = <<>> THEN Returned(rows)
  ELSE IF \E m \in 1..Len(order_arguments) : ~IsNamedColumn(order_arguments[m], names)
  THEN Raised("BigqueryInvalidQueryError")
  ELSE With(SortRounds(order_arguments, Len(order_arguments), names, rows,
                       [j \in 1..Len(rows) |-> j]),
            LAMBDA current_index_sort :
              Returned([k \in 1..Len(current_index_sort) |-> rows[current_index_sort[k]]]))

\* What Part F leaves alone.
SortOnly == UNCHANGED <<clientVars, cryptoVars, queryVars, prgVars, schemaVars, toolVars>>

\* SortTable has not been called yet.
NotSorted == [error |-> "pending", value |-> <<>>]

\* PrintTable: table_values = self.order_by_clause.SortTable(self.column_names, table_values)
SortTableCall ==
  /\ sorted_table.error = "pending"
  /\ sorted_table' = SortTable(order_by, column_names, table_rows)
  /\ UNCHANGED <<column_names, table_rows, order_by>>
  /\ SortOnly

\* The tables of the model: the names of the columns as ConstructColumnNames
\* gives them (SELECT a, a gives the name a twice), and the rows.
ColumnName(text) == [name |-> text]
TwoColumns == <<ColumnName(<<"a">>), ColumnName(<<"b">>)>>
SameColumns == <<ColumnName(<<"a">>), ColumnName(<<"a">>)>>
ThreeColumns == <<ColumnName(<<"a">>), ColumnName(<<"b">>), ColumnName(<<"c">>)>>
TablesOf(width) ==
  UNION {[1..m -> [1..width -> Cells]] : m \in 0..MaxTableRows}

\* The ORDER BY arguments: a label, or a label and ASC or DESC in any case
\* (query_parser: order_label).
Directions ==
  {<<>>,
   <<" ", "a", "s", "c">>,
   <<" ", "d", "e", "s", "c">>,
   <<" ", "D", "E", "S", "C">>}
OrderArguments(labels) == {label \o direction : label \in labels, direction \in Directions}
OrderListsOf(labels) ==
  {<<>>} \cup {<<x>> : x \in OrderArguments(labels)}
         \cup {<<x, y>> : x \in OrderArguments(labels), y \in OrderArguments(labels)}
TwoLabels ==
  {<<"a">>,
   <<"b">>}
OtherLabels ==
  {<<"a">>,
   <<"z">>}
TestOrderList ==
  <<<<"c", " ", "a", "s", "c">>,
    <<"b", " ", "d", "e", "s", "c">>,
    <<"a">>>>
OtherOrderList ==
  <<<<"b", " ", "D", "E", "S", "C">>,
    <<"c">>,
    <<"a", " ", "d", "e", "s", "c">>>>
ThreeKeyLists == {TestOrderList, OtherOrderList}

SortInit ==
  /\ \/ /\ column_names = TwoColumns
        /\ table_rows \in TablesOf(2)
        /\ order_by \in OrderListsOf(TwoLabels)
     \/ /\ column_names \in {TwoColumns, SameColumns}
        /\ table_rows \in TablesOf(2)
        /\ order_by \in OrderListsOf(OtherLabels)
     \/ /\ column_names = ThreeColumns
        /\ table_rows \in TablesOf(3)
        /\ order_by \in ThreeKeyLists
  /\ sorted_table = NotSorted

InitSort ==
  SortInit /\ ClientIdle /\ CryptoIdle /\ QueryIdle /\ PrgIdle /\ SchemaIdle /\ ToolIdle

NextSort == SortTableCall

SpecSort == InitSort /\ [][NextSort]_vars

\* The vocabulary of the claim about the order of the printed table.
OrderKey(order_argument) ==
  IF Len(order_argument) > 1 /\ order_argument[2] = " " THEN SubSeq(order_argument, 1, 1)
  ELSE order_argument
IsDescending(order_argument) ==
  Len(order_argument) = 6 /\ LowerStr(SubSeq(order_argument, 2, 6)) = <<" ",
      "d", "e", "s", "c">>
ColumnsNamed(key) == {i \in 1..Len(column_names) : column_names[i].name = key}
KeysNameDistinctColumns ==
  /\ order_by # <<>>
  /\ \A m \in 1..Len(order_by) : Cardinality(ColumnsNamed(OrderKey(order_by[m]))) = 1
  /\ \A m, n \in 1..Len(order_by) : m # n => OrderKey(order_by[m]) # OrderKey(order_by[n])

\* -1, 0, 1: row x is before, equal to, after row y by the keys m, m + 1, ..
RECURSIVE CompareByKeys(_, _, _)
CompareByKeys(x, y, m) ==
  IF m > Len(order_by) THEN 0
  ELSE LET i == CHOOSE c \in ColumnsNamed(OrderKey(order_by[m])) : TRUE
           ascending == IF x[i] = y[i] THEN 0 ELSE IF StrLessEq(x[i], y[i]) THEN 0 - 1 ELSE 1
           by_key == IF IsDescending(order_by[m]) THEN 0 - ascending ELSE ascending
       IN  IF by_key # 0 THEN by_key ELSE CompareByKeys(x, y, m + 1)

\* The ways to put the rows of the table in another order.
Arrangements ==
  {p \in [1..Len(table_rows) -> 1..Len(table_rows)] :
     \A j, k \in 1..Len(table_rows) : j # k => p[j] # p[k]}

IsOrderedArrangement(p) ==
  \A k \in 1..(Len(p) - 1) :
    With(CompareByKeys(table_rows[p[k]], table_rows[p[k + 1]], 1), LAMBDA c :
      c < 0 \/ (c = 0 /\ p[k] < p[k + 1]))

\* C15: for ORDER BY keys that name distinct columns of the table (each key
\* the name of one column, no two keys the same column), SortTable
\* returns the rows of the table in lexicographic order of the keys, each in
\* its direction and the first key the most significant, and rows equal on
\* all keys in the order they had in the table.
C15_SortTableOrdersByKeys ==
  sorted_table.error # "pending" /\ KeysNameDistinctColumns =>
    /\ sorted_table.error = "none"
    /\ \E p \in Arrangements :
         /\ IsOrderedArrangement(p)
         /\ sorted_table.value = [k \in 1..Len(table_rows) |-> table_rows[p[k]]]

\* C15: a table of three rows has been sorted by a descending key on which
\* two rows are equal, and the two rows came out in the order they had.
C15_EqualRowsKeepTheirOrder ==
  /\ column_names = TwoColumns
  /\ order_by = <<<<"a", " ", "d", "e", "s", "c">>>>
  /\ table_rows = <<<<<<"1">>, <<"1">>>>, <<<<"2">>, <<"1">>>>, <<<<"1">>, <<
      "2">>>>>>
  /\ sorted_table = Returned(<<<<<<"2">>, <<"1">>>>, <<<<"1">>, <<"1">>>>, <<<<
      "1">>, <<"2">>>>>>)


(***************************************************************************)
(* Part G.  common_crypto.py: PRG, the pseudorandom stream of a seed.      *)
(***************************************************************************)

\* Bound: the most calls of GetNextBytes on one generator.
MaxRequests == 4

\* Bound: the most bytes asked of one generator in all.
MaxStream == 64

\* DEFAULT_PRF_OUTPUT_LEN of common_crypto.py: the bytes of a block.
DEFAULT_PRF_OUTPUT_LEN == 16

\* ''.join(PRF(self.__seed, str(k)) for k in xrange(first_block, last_block + 1))
RECURSIVE PrgBlocks(_, _, _)
PrgBlocks(seed, first_block, last_block) ==
  IF first_block > last_block THEN <<>>
  ELSE PRF(seed, Ords(StrOfInt(first_block)), DEFAULT_PRF_OUTPUT_LEN).value
       \o PrgBlocks(seed, first_block + 1, last_block)

\* buf[start:-back] for back > 0
SliceToBack(buf, start, back) ==
  IF start >= Len(buf) - back THEN <<>> ELSE SubSeq(buf, start + 1, Len(buf) - back)

\* A generator that hands out the first n bytes of the blocks it computes,
\* whatever part of the first block it has handed out before.
NextBytes_FromBlockStart(seed, count, n) ==
  SubSeq(PrgBlocks(seed, count \div DEFAULT_PRF_OUTPUT_LEN,
                   (count + n) \div DEFAULT_PRF_OUTPUT_LEN), 1, n)

\* PRG.GetNextBytes: the value it returns for self.__seed = seed and
\* self.__count = count.
NextBytes(seed, count, n) ==
  SliceToBack(PrgBlocks(seed, count \div DEFAULT_PRF_OUTPUT_LEN,
                        (count + n) \div DEFAULT_PRF_OUTPUT_LEN),
              count % DEFAULT_PRF_OUTPUT_LEN,
              DEFAULT_PRF_OUTPUT_LEN - ((count + n) % DEFAULT_PRF_OUTPUT_LEN))

\* What Part G leaves alone.
PrgOnly == UNCHANGED <<clientVars, cryptoVars, queryVars, sortVars, schemaVars, toolVars>>

\* The sizes asked for: none, a few bytes, up to the end of a block, a block,
\* more than a block.
RequestSizes == {0, 1, 3, 13, 15, 16, 17, 23}

\* The seeds: 16 and 17 bytes.
Seeds == {[i \in 1..16 |-> i], [i \in 1..17 |-> 2 * i + 1]}

\* PRG.__init__ with a seed of at least 16 bytes
PrgInit ==
  /\ prg_seed \in Seeds
  /\ prg_count = 0
  /\ prg_sizes = <<>>
  /\ prg_output = <<>>

\* PRG.GetNextBytes(n)
GetNextBytes ==
  /\ Len(prg_sizes) < MaxRequests
  /\ \E n \in RequestSizes :
       /\ prg_count + n <= MaxStream
       /\ prg_output' = prg_output \o NextBytes(prg_seed, prg_count, n)
       /\ prg_count' = prg_count + n
       /\ prg_sizes' = Append(prg_sizes, n)
  /\ UNCHANGED prg_seed
  /\ PrgOnly

InitPrg ==
  PrgInit /\ ClientIdle /\ CryptoIdle /\ QueryIdle /\ SortIdle /\ SchemaIdle /\ ToolIdle

NextPrg == GetNextBytes

SpecPrg == InitPrg /\ [][NextPrg]_vars

RECURSIVE SumOfSizes(_)
SumOfSizes(sizes) == IF sizes = <<>> THEN 0 ELSE sizes[1] + SumOfSizes(Tail(sizes))

\* C18: what successive calls GetNextBytes(n1), .., GetNextBytes(nm) on one
\* PRG(seed) return, one after the other, is what a single call
\* GetNextBytes(n1 + .. + nm) on a fresh PRG(seed) returns.
C18_SplitRequestsGiveOneStream ==
  /\ Len(prg_output) = SumOfSizes(prg_sizes)
  /\ prg_output = NextBytes(prg_seed, 0, SumOfSizes(prg_sizes))

\* C18: three calls have been made, the second up to the end of the first
\* block of 16 bytes, the third over the whole second block.
C18_RequestEndsOnBlockBoundary ==
  /\ prg_sizes = <<3, 13, 17>>
  /\ Len(prg_output) = 33


(***************************************************************************)
(* Part H.  load_lib.py: the extended schema file is read, validated and   *)
(* normalised, and rewritten to the schema of the encrypted table.  A      *)
(* column is the dict of the JSON file: a function of its keys.            *)
(***************************************************************************)

\* NONE of load_lib.py
NONE == <<"n", "o", "n", "e">>

LeafTypes ==
  {<<"i", "n", "t", "e", "g", "e", "r">>,
   <<"s", "t", "r", "i", "n", "g">>,
   <<"f", "l", "o", "a", "t">>,
   <<"t", "i", "m", "e", "s", "t", "a", "m", "p">>}
ColumnModes ==
  {<<"r", "e", "q", "u", "i", "r", "e", "d">>,
   <<"n", "u", "l", "l", "a", "b", "l", "e">>,
   <<"r", "e", "p", "e", "a", "t", "e", "d">>}
SearchwordsKinds ==
  {<<"s", "e", "a", "r", "c", "h", "w", "o", "r", "d", "s">>,
   <<"p", "r", "o", "b", "a", "b", "i", "l", "i", "s", "t", "i", "c", "_",
       "s", "e", "a", "r", "c", "h", "w", "o", "r", "d", "s">>}
OtherEncryptKinds ==
  {<<"n", "o", "n", "e">>,
   <<"p", "r", "o", "b", "a", "b", "i", "l", "i", "s", "t", "i", "c">>,
   <<"p", "s", "e", "u", "d", "o", "n", "y", "m">>,
   <<"h", "o", "m", "o", "m", "o", "r", "p", "h", "i", "c">>}
EncryptKinds == SearchwordsKinds \cup OtherEncryptKinds
NumberTypes ==
  {<<"i", "n", "t", "e", "g", "e", "r">>,
   <<"f", "l", "o", "a", "t">>}

\* column.get('encrypt', default)
EncryptOr(column, default) ==
  IF "encrypt" \in DOMAIN column THEN column.encrypt ELSE default

\* The keys of a column in the order the checks of the model take them; the
\* order of a dict decides only which of two errors is raised.
KeyOrder ==
  <<"name", "type", "mode", "encrypt", "related", "searchwords_separator",
    "max_word_sequence", "fields">>

\* The first error of a list of errors, "none" if there is none.
FirstOf(errors) ==
  IF \A k \in 1..Len(errors) : errors[k] = "none" THEN "none"
  ELSE errors[CHOOSE k \in 1..Len(errors) :
                /\ errors[k] # "none"
                /\ \A j \in 1..(k - 1) : errors[j] = "none"]

RECURSIVE ValidateExtendedSchema(_)

\* The checks of _ValidateExtendedSchema on one key of a column: the error
\* raised, or "none" for continue.
ValidateKey(column, key) ==
  IF key = "type" /\ LowerStr(column.type) \in LeafTypes THEN "none"
  ELSE IF key = "type" /\ LowerStr(column.type) = <<"r", "e", "c", "o", "r",
      "d">> /\ "fields" \in DOMAIN column
    THEN "none"
  ELSE IF key = "name" /\ column.name # <<>> THEN "none"
  ELSE IF key = "mode" /\ LowerStr(column.mode) \in ColumnModes THEN "none"
  ELSE IF key = "encrypt" /\ LowerStr(column.encrypt) \in EncryptKinds
    THEN IF LowerStr(column.encrypt) \in SearchwordsKinds /\ column.type # <<
        "s", "t", "r", "i", "n", "g">>
           THEN "EncryptConvertError"
         ELSE IF LowerStr(column.encrypt) = <<"h", "o", "m", "o", "m", "o",
             "r", "p", "h", "i", "c">> /\ column.type \notin NumberTypes
           THEN "EncryptConvertError"
         ELSE "none"
  ELSE IF key = "related"
    THEN IF LowerStr(EncryptOr(column, <<>>)) # <<"p", "s", "e", "u", "d",
        "o", "n", "y", "m">> THEN "EncryptConvertError"
         ELSE "none"
  ELSE IF key = "searchwords_separator" /\ column[key] # <<>> /\ "encrypt" \notin DOMAIN column
    THEN "KeyError"
  ELSE IF key = "searchwords_separator" /\ column[key] # <<>>
          /\ LowerStr(column.encrypt) \in SearchwordsKinds
    THEN "none"
  ELSE IF key = "max_word_sequence" /\ "encrypt" \notin DOMAIN column THEN "KeyError"
  ELSE IF key = "max_word_sequence" /\ LowerStr(column.encrypt) \in SearchwordsKinds
    THEN "none"
  ELSE IF key = "fields" /\ LowerStr(column.type) = <<"r", "e", "c", "o", "r",
      "d">>
    THEN ValidateExtendedSchema(column.fields)
  ELSE "EncryptConvertError"

\* The body of the loop of _ValidateExtendedSchema over the columns.
ValidateColumn(column) ==
  IF "name" \notin DOMAIN column \/ "type" \notin DOMAIN column THEN "EncryptConvertError"
  ELSE IF column.type = <<"r", "e", "c", "o", "r", "d">>
      /\ "fields" \notin DOMAIN column THEN "EncryptConvertError"
  ELSE IF "fields" \in DOMAIN column /\ column.type # <<"r", "e", "c", "o",
      "r", "d">> THEN "EncryptConvertError"
  ELSE IF EncryptOr(column, NONE) # NONE /\ column.type = <<"r", "e", "c",
      "o", "r", "d">> THEN "EncryptConvertError"
  ELSE IF EncryptOr(column, NONE) # NONE /\ column.type = <<"t", "i", "m",
      "e", "s", "t", "a", "m", "p">>
    THEN "EncryptConvertError"
  ELSE FirstOf([k \in 1..Len(KeyOrder) |->
                  IF KeyOrder[k] \in DOMAIN column THEN ValidateKey(column, KeyOrder[k])
                  ELSE "none"])

\* _ValidateExtendedSchema: the error it raises, or "none".
ValidateExtendedSchema(schema) ==
  FirstOf([i \in 1..Len(schema) |-> ValidateColumn(schema[i])])

RECURSIVE ModifyFields(_)

\* The body of the loop of _ModifyFields over the columns.
ModifyColumn(column) ==
  LET lowered == [key \in DOMAIN column |->
                    IF key \in {"name", "fields", "max_word_sequence"} THEN column[key]
                    ELSE LowerStr(column[key])]
      with_mode == IF "mode" \in DOMAIN lowered THEN lowered
                   ELSE lowered @@ [mode |-> <<"r", "e", "q", "u", "i", "r",
                       "e", "d">>]
  IN  IF with_mode.type = <<"r", "e", "c", "o", "r", "d">>
        THEN [with_mode EXCEPT !.fields = ModifyFields(@)]
      ELSE IF "encrypt" \notin DOMAIN with_mode THEN with_mode @@ [encrypt |-> NONE]
      ELSE with_mode

\* _ModifyFields: the schema it leaves.
ModifyFields(schema) == [i \in 1..Len(schema) |-> ModifyColumn(schema[i])]

\* ReadSchemaFile for a file that exists and holds a JSON list of dicts.
ReadSchemaFile(file_content) ==
  IF ValidateExtendedSchema(file_content) # "none"
    THEN Raised(ValidateExtendedSchema(file_content))
  ELSE Returned(ModifyFields(file_content))

\* del new_field[key] for each of the keys
Without(field, keys) == [key \in DOMAIN field \ keys |-> field[key]]

\* new_field['name'] = prefix + field['name']; new_field['type'] = 'string'
Prefixed(field, prefix) ==
  [key \in DOMAIN field |->
     IF key = "name" THEN prefix \o field.name
     ELSE IF key = "type" THEN <<"s", "t", "r", "i", "n", "g">>
     ELSE field[key]]

SearchwordsKeys == {"encrypt", "searchwords_separator", "max_word_sequence"}

\* _RewriteField: the fields it appends to the new schema, or the error.
RewriteSchemaField(field) ==
  IF "encrypt" \notin DOMAIN field THEN Raised("KeyError")
  ELSE IF field.encrypt = NONE THEN Returned(<<Without(field, {"encrypt"})>>)
  ELSE IF field.encrypt = <<"p", "r", "o", "b", "a", "b", "i", "l", "i", "s",
      "t", "i", "c">>
    THEN Returned(<<Without(Prefixed(field, PROBABILISTIC_PREFIX), {"encrypt"})>>)
  ELSE IF field.encrypt = <<"p", "s", "e", "u", "d", "o", "n", "y", "m">>
    THEN Returned(<<Without(Prefixed(field, PSEUDONYM_PREFIX), {"encrypt", "related"})>>)
  ELSE IF field.encrypt = <<"s", "e", "a", "r", "c", "h", "w", "o", "r", "d",
      "s">>
    THEN Returned(<<Without(Prefixed(field, SEARCHWORDS_PREFIX), SearchwordsKeys)>>)
  ELSE IF field.encrypt = <<"h", "o", "m", "o", "m", "o", "r", "p", "h", "i",
      "c">> /\ field.type = <<"i", "n", "t", "e", "g", "e", "r">>
    THEN Returned(<<Without(Prefixed(field, HOMOMORPHIC_INT_PREFIX), {"encrypt"})>>)
  ELSE IF field.encrypt = <<"h", "o", "m", "o", "m", "o", "r", "p", "h", "i",
      "c">> /\ field.type = <<"f", "l", "o", "a", "t">>
    THEN Returned(<<Without(Prefixed(field, HOMOMORPHIC_FLOAT_PREFIX), {"encrypt"})>>)
  ELSE IF field.encrypt = <<"p", "r", "o", "b", "a", "b", "i", "l", "i", "s",
      "t", "i", "c", "_", "s", "e", "a", "r", "c", "h", "w", "o", "r", "d",
      "s">>
    THEN IF "mode" \notin DOMAIN field THEN Raised("KeyError")
         ELSE Returned(<<[name |-> SEARCHWORDS_PREFIX \o field.name, type |-> <<
             "s", "t", "r", "i", "n", "g">>,
                          mode |-> field.mode],
                         Without(Prefixed(field, PROBABILISTIC_PREFIX), SearchwordsKeys)>>)
  ELSE Returned(<<field>>)

\* load_lib.RewriteSchema on the list of the columns: the rewritten schema,
\* or the error.
RECURSIVE RewriteExtendedSchema(_)
RewriteExtendedSchema(schema) ==
  IF schema = <<>> THEN Returned(<<>>)
  ELSE
    With(IF "type" \in DOMAIN schema[1] /\ schema[1].type = <<"r", "e", "c",
        "o", "r", "d">>
           THEN IF "fields" \notin DOMAIN schema[1] THEN Raised("EncryptConvertError")
                ELSE With(RewriteExtendedSchema(schema[1].fields), LAMBDA inner :
                       IF inner.error # "none" THEN inner
                       ELSE Returned(<<[schema[1] EXCEPT !.fields = inner.value]>>))
           ELSE RewriteSchemaField(schema[1]),
         LAMBDA first :
           IF first.error # "none" THEN first
           ELSE With(RewriteExtendedSchema(Tail(schema)), LAMBDA others :
                  IF others.error # "none" THEN others
                  ELSE Returned(first.value \o others.value)))

\* What Part H leaves alone.
SchemaOnly == UNCHANGED <<clientVars, cryptoVars, queryVars, sortVars, prgVars, toolVars>>

\* Load: orig_schema = load_lib.ReadSchemaFile(schema)
ReadSchemaFileCall ==
  /\ schema_step = "file"
  /\ read_schema' = ReadSchemaFile(schema_file)
  /\ schema_step' = "read"
  /\ UNCHANGED <<schema_file, new_schema>>
  /\ SchemaOnly

\* Bound: the most calls of RewriteSchema, the first on the schema read and
\* each other on what the call before returned.
MaxRewrites == 2

\* new_schema = load_lib.RewriteSchema(orig_schema); new_schema holds what
\* each call returned or raised.
RewriteSchemaCall ==
  /\ schema_step \in {"read", "rewritten"}
  /\ read_schema.error = "none"
  /\ Len(new_schema) < MaxRewrites
  /\ new_schema # <<>> => new_schema[Len(new_schema)].error = "none"
  /\ new_schema' =
       Append(new_schema,
              RewriteExtendedSchema(IF new_schema = <<>> THEN read_schema.value
                                    ELSE new_schema[Len(new_schema)].value))
  /\ schema_step' = "rewritten"
  /\ UNCHANGED <<schema_file, read_schema>>
  /\ SchemaOnly

\* The schema files of the model: a column of each type and encryption in
\* lower and upper case, with and without a mode; a record of one such
\* column; two columns.
FileTypes ==
  {<<"i", "n", "t", "e", "g", "e", "r">>,
   <<"s", "t", "r", "i", "n", "g">>,
   <<"f", "l", "o", "a", "t">>,
   <<"t", "i", "m", "e", "s", "t", "a", "m", "p">>,
   <<"T", "I", "M", "E", "S", "T", "A", "M", "P">>,
   <<"T", "i", "m", "e", "s", "t", "a", "m", "p">>,
   <<"S", "T", "R", "I", "N", "G">>}
NoEncrypt == <<>>
FileEncrypts ==
  {NoEncrypt,
   <<"n", "o", "n", "e">>,
   <<"N", "O", "N", "E">>,
   <<"p", "r", "o", "b", "a", "b", "i", "l", "i", "s", "t", "i", "c">>,
   <<"P", "s", "e", "u", "d", "o", "n", "y", "m">>,
   <<"p", "s", "e", "u", "d", "o", "n", "y", "m">>,
   <<"s", "e", "a", "r", "c", "h", "w", "o", "r", "d", "s">>,
   <<"p", "r", "o", "b", "a", "b", "i", "l", "i", "s", "t", "i", "c", "_",
       "s", "e", "a", "r", "c", "h", "w", "o", "r", "d", "s">>,
   <<"h", "o", "m", "o", "m", "o", "r", "p", "h", "i", "c">>}
FileColumn(name, type, encrypt, with_mode) ==
  [name |-> name, type |-> type]
  @@ (IF encrypt = NoEncrypt THEN <<>> ELSE [encrypt |-> encrypt])
  @@ (IF with_mode THEN [mode |-> <<"N", "U", "L", "L", "A", "B", "L", "E">>]
      ELSE <<>>)
FileColumns ==
  {FileColumn(<<"c">>, type, encrypt, with_mode) :
     type \in FileTypes, encrypt \in FileEncrypts, with_mode \in BOOLEAN}
NestedColumns ==
  {FileColumn(<<"d">>, type, encrypt, FALSE) :
     type \in {<<"i", "n", "t", "e", "g", "e", "r">>, <<"t", "i", "m", "e",
         "s", "t", "a", "m", "p">>, <<"T", "I", "M", "E", "S", "T", "A", "M",
         "P">>},
     encrypt \in {NoEncrypt, <<"p", "r", "o", "b", "a", "b", "i", "l", "i",
         "s", "t", "i", "c">>, <<"h", "o", "m", "o", "m", "o", "r", "p", "h",
         "i", "c">>}}
RecordColumn(fields) == [name |-> <<"r">>, type |-> <<"r", "e", "c", "o", "r",
    "d">>, fields |-> fields]
SchemaFiles ==
  {<<>>}
  \cup {<<column>> : column \in FileColumns}
  \cup {<<RecordColumn(<<column>>)>> : column \in NestedColumns}
  \cup {<<RecordColumn(<<RecordColumn(<<column>>)>>)>> : column \in NestedColumns}
  \cup {<<RecordColumn(<<>>), column>> : column \in NestedColumns}
  \cup {<<[name |-> <<"r">>, type |-> <<"r", "e", "c", "o", "r", "d">>]>>,
         <<[name |-> <<"r">>, type |-> <<"R", "E", "C", "O", "R", "D">>,
             fields |-> <<>>]>>,
         <<[name |-> <<"c">>, type |-> <<"i", "n", "t", "e", "g", "e", "r">>,
             fields |-> <<>>]>>,
         <<[name |-> <<"c">>, type |-> <<"s", "t", "r", "i", "n", "g">>,
             encrypt |-> <<"p", "s", "e", "u", "d", "o", "n", "y", "m">>,
             related |-> <<"C", "a", "r", "s">>]>>,
         <<[type |-> <<"i", "n", "t", "e", "g", "e", "r">>]>>}

SchemaInit ==
  /\ schema_file \in SchemaFiles
  /\ read_schema = <<>>
  /\ new_schema = <<>>
  /\ schema_step = "file"

InitSchema ==
  SchemaInit /\ ClientIdle /\ CryptoIdle /\ QueryIdle /\ SortIdle /\ PrgIdle /\ ToolIdle

NextSchema ==
  \/ ReadSchemaFileCall
  \/ RewriteSchemaCall

SpecSchema == InitSchema /\ [][NextSchema]_vars

\* C19: RewriteSchema applied to what RewriteSchema returned succeeds and
\* returns it unchanged.
C19_RewriteSchemaIsIdempotent ==
  Len(new_schema) = 2 =>
    /\ new_schema[2].error = "none"
    /\ new_schema[2].value = new_schema[1].value

\* C19: RewriteSchema has been applied to the schema it returned for a file
\* with a column under probabilistic encryption.
C19_RewrittenTwice ==
  /\ Len(new_schema) = 2
  /\ schema_file = <<[name |-> <<"c">>, type |-> <<"i", "n", "t", "e", "g",
      "e", "r">>, encrypt |-> <<"p", "r", "o", "b", "a", "b", "i", "l", "i",
      "s", "t", "i", "c">>]>>
  /\ new_schema[1].error = "none"
  /\ new_schema[1].value[1].name = PROBABILISTIC_PREFIX \o <<"c">>

\* The schema has a field, at any depth, of type timestamp with an encrypt
\* other than none.
RECURSIVE HasEncryptedTimestamp(_)
HasEncryptedTimestamp(schema) ==
  \E i \in 1..Len(schema) :
    \/ /\ schema[i].type = <<"t", "i", "m", "e", "s", "t", "a", "m", "p">>
       /\ "encrypt" \in DOMAIN schema[i]
       /\ schema[i].encrypt # NONE
    \/ /\ "fields" \in DOMAIN schema[i]
       /\ HasEncryptedTimestamp(schema[i].fields)

\* C20: a schema that ReadSchemaFile returns has no field, at any depth, of
\* type timestamp with an encrypt other than none, whatever the case of the
\* type and the encrypt in the file.
C20_NoEncryptedTimestampIsAccepted ==
  schema_step # "file" /\ read_schema.error = "none"
    => ~HasEncryptedTimestamp(read_schema.value)

\* C20: a file with a column of type timestamp, in lower case, under
\* pseudonym encryption has been rejected.
C20_EncryptedTimestampRejected ==
  /\ schema_step = "read"
  /\ schema_file = <<[name |-> <<"c">>, type |-> <<"t", "i", "m", "e", "s",
      "t", "a", "m", "p">>, encrypt |-> <<"p", "s", "e", "u", "d", "o", "n",
      "y", "m">>]>>
  /\ read_schema.error = "EncryptConvertError"


(***************************************************************************)
(* The rows SortTable returns, as a collection.                            *)
(***************************************************************************)

\* How often a row is in a table.
TimesIn(row, rows) == Cardinality({k \in 1..Len(rows) : rows[k] = row})

\* C28: whatever the ORDER BY keys and the names of the columns, two columns
\* of the name of a key included, the table SortTable returns has as many
\* rows as the table it was given and holds each of its rows exactly as
\* often.
C28_SortTableReturnsPermutation ==
  sorted_table.error = "none" =>
    /\ Len(sorted_table.value) = Len(table_rows)
    /\ \A k \in 1..Len(table_rows) :
         TimesIn(table_rows[k], sorted_table.value) = TimesIn(table_rows[k], table_rows)

\* C28: a table whose two columns are both named a has been sorted by a.
C28_SortedByDoubledColumn ==
  /\ column_names = SameColumns
  /\ order_by = <<<<"a">>>>
  /\ table_rows = <<<<<<"2">>, <<"1">>>>, <<<<"1">>, <<"2">>>>>>
  /\ sorted_table.error = "none"

(***************************************************************************)
(* The original_name of the tokens _RewriteEncryptedFields has made.       *)
(***************************************************************************)

\* The expressions _RewriteEncryptedFields is given by the clause; GROUP BY
\* gives it its columns as one expression, unless it has failed before.
TaggedExpressions ==
  IF clause = "SELECT" THEN ReplaceAliases(argument, extra_args.alias)
  ELSE IF clause \in {"WHERE", "HAVING"} THEN argument
  ELSE IF clause # "GROUP BY" THEN <<>>
  ELSE IF rewritten.error \in {"TypeError", "KeyError", "ValueError", "BigqueryInvalidQueryError"}
    THEN <<>>
  ELSE <<argument>>

\* The places <<e, i>> of the tokens of the encrypted classes made of the
\* fields of the expressions.
TokensMade ==
  {place \in UNION {{<<e, i>> : i \in 1..Len(TaggedExpressions[e])} :
                      e \in 1..Len(TaggedExpressions)} :
     With(RewriteField(TaggedExpressions[place[1]][place[2]], user_schema), LAMBDA token :
       token.cls \in EncryptedTokenClasses)}

\* The related of a field in the schema: that of a pseudonym column that has
\* one, else None.
RelatedOfField(name) ==
  With(GetEntryFromSchema(name, user_schema), LAMBDA row :
    IF row.encrypt = <<"p", "s", "e", "u", "d", "o", "n", "y", "m">>
        /\ "related" \in DOMAIN row THEN Given(row.related)
    ELSE NoneValue)

\* C22: after the fields of a clause have been replaced by tokens of the
\* encrypted classes, every token made reports as original_name the name of
\* the field it was made of, and as related the related of that field in the
\* schema; a later token of the same class has not changed it.
C22_TokensKeepOriginalName ==
  progress = "done" =>
    \A place \in TokensMade :
      With(TaggedExpressions[place[1]][place[2]], LAMBDA field :
        With(RewriteField(field, user_schema), LAMBDA token :
          /\ OriginalName(original_name, token) = field.text
          /\ token.related = RelatedOfField(field.text)))

\* C22: a clause with two fields of one encrypted class has been rewritten.
C22_TwoTokensOfOneClass ==
  /\ progress = "done"
  /\ \E p, q \in TokensMade :
       /\ TaggedExpressions[p[1]][p[2]].text # TaggedExpressions[q[1]][q[2]].text
       /\ RewriteField(TaggedExpressions[p[1]][p[2]], user_schema).cls
            = RewriteField(TaggedExpressions[q[1]][q[2]], user_schema).cls


(***************************************************************************)
(* Part I.  query_interpreter.py: Evaluate on the expressions of a row     *)
(* (_ComputeRows: ans = interpreter.Evaluate(temp_stack)).                 *)
(***************************************************************************)

\* What Part I leaves alone.
EvalOnly ==
  UNCHANGED <<clientVars, cryptoVars, queryVars, sortVars, prgVars, schemaVars, printVars, keyVars, manifestVars, sumVars>>

\* Evaluate has not been called yet.
NotEvaluated == [error |-> "pending", value |-> PyNone]

\* interpreter.Evaluate(stack)
EvaluateCall ==
  /\ eval_result.error = "pending"
  /\ eval_result' = Evaluate(eval_stack)
  /\ UNCHANGED eval_stack
  /\ EvalOnly

\* The values of the expressions: null, the booleans, ints and a string.
NullLiteral == LiteralToken(<<"n", "u", "l", "l">>)
TrueLiteral == LiteralToken(<<"t", "r", "u", "e">>)
FalseLiteral == LiteralToken(<<"f", "a", "l", "s", "e">>)
EvalValues ==
  {NullLiteral, TrueLiteral, FalseLiteral, IntToken(0), IntToken(1), IntToken(2),
   StringLiteralToken(<<"\"", "a", "b", "\"">>)}

\* The built-in functions of the expressions, of one, two and three arguments.
OneArgumentNames ==
  {<<"a", "b", "s">>,
   <<"l", "e", "n", "g", "t", "h">>,
   <<"l", "o", "w", "e", "r">>}
TwoArgumentNames ==
  {<<"p", "o", "w">>,
   <<"l", "e", "f", "t">>}
ThreeArgumentNames ==
  {<<"i", "f">>,
   <<"s", "u", "b", "s", "t", "r">>}
BinaryOperatorNames ==
  {<<"i", "s">>,
   <<"+">>}

\* null + 1: an argument that is null without being the literal.
NullSum == <<NullLiteral, IntToken(1), OperatorToken(<<"+">>, 2)>>

EvalStacks ==
  {<<a>> : a \in EvalValues}
  \cup {<<a, BuiltInFunctionToken(f)>> : a \in EvalValues, f \in OneArgumentNames}
  \cup {<<a, b, BuiltInFunctionToken(f)>> : a \in EvalValues, b \in EvalValues,
                                           f \in TwoArgumentNames}
  \cup {<<a, b, c, BuiltInFunctionToken(f)>> : a \in EvalValues, b \in EvalValues,
                                              c \in EvalValues, f \in ThreeArgumentNames}
  \cup {<<a, b, OperatorToken(o, 2)>> : a \in EvalValues, b \in EvalValues,
                                        o \in BinaryOperatorNames}
  \cup {NullSum \o <<BuiltInFunctionToken(f)>> : f \in OneArgumentNames}
  \cup {<<a>> \o NullSum \o <<BuiltInFunctionToken(f)>> : a \in EvalValues,
                                                        f \in TwoArgumentNames}

EvalInit ==
  /\ eval_stack \in EvalStacks
  /\ eval_result = NotEvaluated

InitEval ==
  EvalInit /\ ClientIdle /\ CryptoIdle /\ QueryIdle /\ SortIdle /\ PrgIdle /\ SchemaIdle
    /\ PrintIdle /\ KeyIdle /\ ManifestIdle /\ SumIdle

NextEval == EvaluateCall

SpecEval == InitEval /\ [][NextEval]_vars

\* The expression is a built-in function of one, two or three arguments
\* applied to as many expressions.
TopOfStack == eval_stack[Len(eval_stack)]
IsBuiltInApplication ==
  /\ TopOfStack.cls = "BuiltInFunctionToken"
  /\ NumArguments(TopOfStack.text) \in 1..3

\* The values of the arguments of the function or operator on top.
ArgumentsOfTop(num_args) == ResolveArguments(eval_stack, Len(eval_stack) - 1, num_args)
HasNullArgument(num_args) ==
  With(ArgumentsOfTop(num_args), LAMBDA args :
    /\ args.error = "none"
    /\ \E i \in 1..Len(args.value) : args.value[i].type = "NoneType")

Evaluated == eval_result.error # "pending"
ReturnedNull == eval_result.error = "none" /\ eval_result.value.type = "NoneType"

\* C23: Evaluate returns null for a built-in function of one, two or three
\* arguments of which at least one evaluates to null.
C23_BuiltInOfNullIsNull ==
  Evaluated /\ IsBuiltInApplication /\ HasNullArgument(NumArguments(TopOfStack.text))
    => ReturnedNull

\* C23: abs(null) has been evaluated, and abs has been applied to None.
C23_AbsOfNullRaised ==
  /\ eval_stack = <<NullLiteral, BuiltInFunctionToken(<<"a", "b", "s">>)>>
  /\ eval_result.error = "TypeError"

\* The expression is `a is b`.
IsIdentityTest ==
  /\ Len(eval_stack) = 3
  /\ TopOfStack = OperatorToken(<<"i", "s">>, 2)

\* C24: Evaluate of `a is b` with a null operand compares identity: it is
\* true for null is null, false for a null and a non-null operand, and never
\* null.
C24_IsComparesIdentityOfNull ==
  Evaluated /\ IsIdentityTest /\ HasNullArgument(2) =>
    /\ eval_result.error = "none"
    /\ eval_result.value.type = "bool"
    /\ eval_result.value.data = (eval_stack[1] = NullLiteral /\ eval_stack[2] = NullLiteral)

\* C24: true is true has been evaluated to true.
C24_IdentityOfBooleans ==
  /\ eval_stack = <<TrueLiteral, TrueLiteral, OperatorToken(<<"i", "s">>, 2)>>
  /\ eval_result.error = "none"
  /\ eval_result.value.type = "bool"
  /\ eval_result.value.data

\* The expression is if(c, a, b) with c a boolean and a, b not null.
IsConditional ==
  /\ Len(eval_stack) = 4
  /\ TopOfStack = BuiltInFunctionToken(<<"i", "f">>)
  /\ eval_stack[1] \in {TrueLiteral, FalseLiteral}
  /\ eval_stack[2] # NullLiteral
  /\ eval_stack[3] # NullLiteral

SameValue(x, y) == x.type = y.type /\ x.data = y.data

\* C30: if(c, a, b) with arguments that are not null evaluates to a when c
\* is true and to b when c is false.
C30_IfChoosesByCondition ==
  Evaluated /\ IsConditional =>
    /\ eval_result.error = "none"
    /\ SameValue(eval_result.value,
                 TokenValue(IF eval_stack[1] = TrueLiteral THEN eval_stack[2]
                            ELSE eval_stack[3]))

\* C30: if(true, 1, 2) has been evaluated to 1.
C30_IfOfTrue ==
  /\ eval_stack = <<TrueLiteral, IntToken(1), IntToken(2), BuiltInFunctionToken(<<
      "i", "f">>)>>
  /\ eval_result.error = "none"
  /\ eval_result.value.type = "int"
  /\ eval_result.value.data = 1


(***************************************************************************)
(* Part J.  A query with ORDER BY and LIMIT: query_lib.RewriteQuery makes  *)
(* the query for the server, the server returns its rows, and              *)
(* EncryptedTablePrinter.PrintTable computes, sorts and prints the table.  *)
(* The query is SELECT a, b FROM t with a and b integer columns in the     *)
(* clear.                                                                  *)
(***************************************************************************)

\* Bound: the most rows the query has at the server.
MaxServerRows == 3

\* clause_factory of RewriteQuery: the clauses that are rewritten and sent,
\* in this order.  ORDER BY is not among them.
ClauseFactory == <<"SELECT", "FROM", "JOIN", "WHERE", "GROUP BY", "HAVING", "LIMIT">>

\* _LimitClause.Rewrite
LimitClause_Rewrite(limit) ==
  IF limit # <<>> THEN <<"L", "I", "M", "I", "T", " ">>
      \o StrOfInt(limit[1]) ELSE <<>>

\* The rows the server returns for the rewritten query: with LIMIT k the
\* first k of the rows it has, in the order it has them.
ServerRows(rows, limit_clause) ==
  IF limit_clause = <<>> THEN rows
  ELSE With(IntOfStr(SubSeq(limit_clause, 7, Len(limit_clause))), LAMBDA k :
         SubSeq(rows, 1, IF k < Len(rows) THEN k ELSE Len(rows)))

\* str(ans) of a value Evaluate has returned
PyStr(ans) ==
  IF ans.type = "int" THEN StrOfInt(ans.data)
  ELSE IF ans.type = "NoneType" THEN <<"N", "U", "L", "L">>
  ELSE ans.data

\* _ComputeRows for the expressions [ue0_], [ue1_]: each token is replaced
\* by the value of the row, the expression is evaluated, and the cell is
\* the str of the answer.
ComputeRows(queried_rows) ==
  [i \in 1..Len(queried_rows) |->
     [j \in 1..Len(queried_rows[i]) |->
        PyStr(Evaluate(<<IntToken(queried_rows[i][j])>>).value)]]

\* What Part J leaves alone.
PrintOnly ==
  UNCHANGED <<clientVars, cryptoVars, queryVars, prgVars, schemaVars, evalVars, keyVars, manifestVars, sumVars>>

\* The query has not been run yet.
NotFetched == [error |-> "pending", value |-> <<>>]

\* EncryptedBigqueryClient.Query: the rewritten query is run at the server.
RunQuery ==
  /\ fetched.error = "pending"
  /\ fetched' = Returned(ServerRows(server_rows,
                                    IF \E c \in 1..Len(ClauseFactory) : ClauseFactory[c] = "LIMIT"
                                      THEN LimitClause_Rewrite(limit_argument)
                                      ELSE <<>>))
  /\ UNCHANGED <<server_rows, limit_argument, sortVars>>
  /\ PrintOnly

\* EncryptedTablePrinter.PrintTable
PrintTable ==
  /\ fetched.error = "none"
  /\ sorted_table.error = "pending"
  /\ \E table_values \in {ComputeRows(fetched.value)} :
       /\ table_rows' = table_values
       /\ sorted_table' = SortTable(order_by, column_names, table_values)
  /\ UNCHANGED <<column_names, order_by, printVars>>
  /\ PrintOnly

\* The rows of the query at the server: a is one of some ints, b is 1 or 2.
FirstCells == {0 - 2, 0 - 1, 9, 10}
SecondCells == {1, 2}
ServerRow(x, y) == <<x, y>>
ServerTables ==
  UNION {[1..m -> {ServerRow(x, y) : x \in FirstCells, y \in SecondCells}] :
           m \in 0..MaxServerRows}

\* The ORDER BY and LIMIT arguments of the query.
PrintOrders ==
  {<<>>,
   <<<<"a">>>>,
   <<<<"a", " ", "d", "e", "s", "c">>>>,
   <<<<"b">>>>,
   <<<<"b">>, <<"a">>>>}
PrintLimits == {<<>>, <<1>>, <<2>>}

PrintInit ==
  /\ server_rows \in ServerTables
  /\ limit_argument \in PrintLimits
  /\ fetched = NotFetched
  /\ column_names = TwoColumns
  /\ order_by \in PrintOrders
  /\ table_rows = <<>>
  /\ sorted_table = NotSorted

InitPrint ==
  PrintInit /\ ClientIdle /\ CryptoIdle /\ QueryIdle /\ PrgIdle /\ SchemaIdle
    /\ EvalIdle /\ KeyIdle /\ ManifestIdle /\ SumIdle

NextPrint ==
  \/ RunQuery
  \/ PrintTable

SpecPrint == InitPrint /\ [][NextPrint]_vars

\* The table has been printed.
Printed == sorted_table.error = "none"

\* The table the query would show without LIMIT.
FullTable == SortTable(order_by, column_names, ComputeRows(server_rows)).value

\* C26: for a query with ORDER BY and LIMIT k the rows shown are the first
\* k rows, in the order of ORDER BY, of the table the query would show
\* without LIMIT.
C26_LimitTakesFirstRowsOfOrder ==
  Printed /\ order_by # <<>> /\ limit_argument # <<>> =>
    With(FullTable, LAMBDA full :
      sorted_table.value =
        SubSeq(full, 1, IF limit_argument[1] < Len(full) THEN limit_argument[1] ELSE Len(full)))

\* C26: a query with ORDER BY a LIMIT 1 has run on a table of two rows, and
\* one row is shown.
C26_OneRowOfTwoShown ==
  /\ Printed
  /\ order_by = <<<<"a">>>>
  /\ limit_argument = <<1>>
  /\ Len(server_rows) = 2
  /\ Len(sorted_table.value) = 1

\* C27: the rows shown for ORDER BY a, ascending or descending, are in the
\* order of the numbers of column a.
C27_OrderedByNumber ==
  Printed /\ Len(order_by) = 1 /\ OrderKey(order_by[1]) = <<"a">> =>
    \A k \in 1..(Len(sorted_table.value) - 1) :
      With(IntOfStr(sorted_table.value[k][1]), LAMBDA this :
        With(IntOfStr(sorted_table.value[k + 1][1]), LAMBDA next :
          IF IsDescending(order_by[1]) THEN this >= next ELSE this <= next))

\* C27: the rows 10 and 9 have been printed for ORDER BY a.
C27_NineAndTenPrinted ==
  /\ Printed
  /\ order_by = <<<<"a">>>>
  /\ limit_argument = <<>>
  /\ server_rows = <<ServerRow(10, 1), ServerRow(9, 1)>>


(***************************************************************************)
(* Part K.  load_lib.py: two clients call ReadMasterKeyFile(filepath,      *)
(* create=True) for one path at which there is no file.  A step of a       *)
(* client is one access to the file.                                       *)
(***************************************************************************)

Clients == {"client1", "client2"}

\* The file at filepath: whether it is there, its content, and how often it
\* has been opened for writing and written.
NoFile == [exists |-> FALSE, content |-> <<>>, opens |-> 0, writes |-> 0]

\* os.open(filepath, os.O_EXCL | os.O_CREAT, mode) without the exclusive
\* flag: an existing file is opened.
SecurelyCreateFile_NotExclusive(file) ==
  Returned([file EXCEPT !.exists = TRUE])

\* _SecurelyCreateFile: os.open(filepath, os.O_EXCL | os.O_CREAT, mode)
\* makes the file, or fails when there is one.
SecurelyCreateFile(file) ==
  IF file.exists THEN Raised("EncryptConvertError")
  ELSE Returned([file EXCEPT !.exists = TRUE])

\* A client before its call, and its locals: whether os.path.exists found
\* the file, whether it has made the file, the key it has generated and
\* what its call has returned or raised.
NoKey == <<>>
ClientStart ==
  [pc |-> "exists", found |-> FALSE, created |-> FALSE, key |-> NoKey,
   error |-> "pending", master_key |-> NoKey]

\* What GetRandBytes(16) may return for the key.
KeyBytes == RandBytes \cup {Repeat(16, 255)}

\* What Part K leaves alone.
KeyOnly ==
  UNCHANGED <<clientVars, cryptoVars, queryVars, sortVars, prgVars, schemaVars, evalVars, printVars, manifestVars, sumVars>>

\* ReadMasterKeyFile: if not os.path.exists(filepath)
CheckExists(c) ==
  /\ key_client[c].pc = "exists"
  /\ key_client' = [key_client EXCEPT ![c].found = key_file.exists,
                                      ![c].pc = IF key_file.exists THEN "read" ELSE "create"]
  /\ UNCHANGED key_file
  /\ KeyOnly

\* _CreateAndStoreMasterKeyFile: key = GetRandBytes(16) and _SecurelyCreateFile
CreateFile(c) ==
  /\ key_client[c].pc = "create"
  /\ \E key \in KeyBytes :
       \E made \in {SecurelyCreateFile(key_file)} :
         IF made.error # "none"
           THEN /\ key_client' = [key_client EXCEPT ![c].key = key,
                                                   ![c].pc = "done",
                                                   ![c].error = made.error]
                /\ UNCHANGED key_file
           ELSE /\ key_client' = [key_client EXCEPT ![c].key = key,
                                                   ![c].created = TRUE,
                                                   ![c].pc = "open"]
                /\ key_file' = made.value
  /\ KeyOnly

\* _CreateAndStoreMasterKeyFile: open(filepath, 'wt') empties the file
OpenForWriting(c) ==
  /\ key_client[c].pc = "open"
  /\ key_file' = [key_file EXCEPT !.content = <<>>, !.opens = @ + 1]
  /\ key_client' = [key_client EXCEPT ![c].pc = "write"]
  /\ KeyOnly

\* _CreateAndStoreMasterKeyFile: f.write(base64.b64encode(key)), written
\* when the file is closed
WriteKey(c) ==
  /\ key_client[c].pc = "write"
  /\ key_file' = [key_file EXCEPT !.content = B64Encode(key_client[c].key),
                                  !.writes = @ + 1]
  /\ key_client' = [key_client EXCEPT ![c].pc = "read"]
  /\ KeyOnly

\* ReadMasterKeyFile: master_key = base64.b64decode(f.read()), and the
\* check of its length
ReadKey(c) ==
  /\ key_client[c].pc = "read"
  /\ key_client' =
       With(B64Decode(key_file.content), LAMBDA decoded :
         [key_client EXCEPT ![c].pc = "done",
                            ![c].error = IF Len(decoded) < 16 THEN "EncryptConvertError"
                                         ELSE "none",
                            ![c].master_key = IF Len(decoded) < 16 THEN NoKey ELSE decoded])
  /\ UNCHANGED key_file
  /\ KeyOnly

KeyInit ==
  /\ key_file = NoFile
  /\ key_client = [c \in Clients |-> ClientStart]

InitKey ==
  KeyInit /\ ClientIdle /\ CryptoIdle /\ QueryIdle /\ SortIdle /\ PrgIdle /\ SchemaIdle
    /\ EvalIdle /\ PrintIdle /\ ManifestIdle /\ SumIdle

NextKey ==
  \E c \in Clients :
    \/ CheckExists(c)
    \/ CreateFile(c)
    \/ OpenForWriting(c)
    \/ WriteKey(c)
    \/ ReadKey(c)

SpecKey == InitKey /\ [][NextKey]_vars

\* The clients whose call has returned a key.
ReturnedKey(c) == key_client[c].pc = "done" /\ key_client[c].error = "none"

\* C25: of two clients that call ReadMasterKeyFile(path, create=True) at the
\* same time for a path without a file, at most one makes and writes the
\* file, a written file is not opened for writing or written again, the
\* calls never return two different keys, and a client that found no file
\* and did not make it ends with an error.
C25_OneKeyFileOneKey ==
  /\ Cardinality({c \in Clients : key_client[c].created}) <= 1
  /\ key_file.opens <= 1 /\ key_file.writes <= 1
  /\ key_file.writes = 1 =>
       \E c \in Clients : key_client[c].created /\ key_file.content = B64Encode(key_client[c].key)
  /\ \A c, d \in Clients :
       ReturnedKey(c) /\ ReturnedKey(d) => key_client[c].master_key = key_client[d].master_key
  /\ \A c \in Clients :
       key_client[c].pc = "done" /\ ~key_client[c].found /\ ~key_client[c].created
         => key_client[c].error = "EncryptConvertError"

\* C25: both clients have found no file, one has made and written it and
\* has its key, and the other has failed to make it.
C25_LoserRaised ==
  /\ \A c \in Clients : key_client[c].pc = "done" /\ ~key_client[c].found
  /\ ReturnedKey("client1")
  /\ key_client["client2"].error = "EncryptConvertError"
  /\ key_client["client1"].key # key_client["client2"].key


(***************************************************************************)
(* Part L.  query_lib.py: QueryManifest, the aliases of the columns of a   *)
(* query.  The two dicts of the manifest are functions of the names.       *)
(***************************************************************************)

\* QueryManifest.__init__: self.manifest
NewManifest == [columns |-> <<>>, column_aliases |-> <<>>]

\* d[key] = value of a dict
DictSet(d, key, value) ==
  [k \in DOMAIN d \cup {key} |-> IF k = key THEN value ELSE d[k]]

\* QueryManifest._SetRawColumnAlias
SetRawColumnAlias(m, column_name, column_alias) ==
  [columns |-> DictSet(m.columns, column_name, column_alias),
   column_aliases |-> DictSet(m.column_aliases, column_alias, column_name)]

\* for extra_column_name in extras: self._SetRawColumnAlias(extra_column_name, column_alias)
RECURSIVE SetExtras(_, _, _, _)
SetExtras(m, extras, i, column_alias) ==
  IF i > Len(extras) THEN m
  ELSE SetExtras(SetRawColumnAlias(m, extras[i], column_alias), extras, i + 1, column_alias)

\* extras=None of GetColumnAliasForName
NoExtras == [given |-> FALSE, names |-> <<>>]
Extras(names) == [given |-> TRUE, names |-> names]

\* QueryManifest.GetColumnAliasForName(column_name, extras) with generate
\* True: the alias, and the manifest after the call.
GetColumnAliasWithExtras(m, column_name, extras) ==
  IF column_name \in DOMAIN m.columns
    THEN [column_alias |-> m.columns[column_name], manifest |-> m]
  ELSE With(GenerateColumnAlias(column_name), LAMBDA column_alias :
         [column_alias |-> column_alias,
          manifest |->
            IF ~extras.given THEN SetRawColumnAlias(m, column_name, column_alias)
            ELSE SetRawColumnAlias(SetExtras(m, extras.names, 1, column_alias),
                                   column_name, column_alias)])

\* QueryManifest.GetColumnNameForAlias: the name, or <<>> for None.
GetColumnNameForAlias(m, column_alias) ==
  IF column_alias \in DOMAIN m.column_aliases THEN m.column_aliases[column_alias]
  ELSE <<>>

\* What Part L leaves alone.
ManifestOnly ==
  UNCHANGED <<clientVars, cryptoVars, queryVars, sortVars, prgVars, schemaVars, evalVars, printVars, keyVars, sumVars>>

\* The names of the columns, and the extras of a call.
ManifestNames ==
  {<<"a">>,
   <<"b">>,
   <<"p", ".", "c">>,
   <<"p", ".", "d">>}
ManifestExtras ==
  {NoExtras, Extras(<<>>)}
  \cup {Extras(<<x>>) : x \in ManifestNames}
  \cup {Extras(<<x, y>>) : x \in ManifestNames, y \in ManifestNames}

\* manifest.GetColumnAliasForName(column_name, extras=extras)
GetColumnAliasForNameCall ==
  /\ \E column_name \in ManifestNames, extras \in ManifestExtras :
       /\ query_manifest' =
            GetColumnAliasWithExtras(query_manifest, column_name, extras).manifest
       /\ primary_names' = primary_names \cup {column_name}
  /\ ManifestOnly

ManifestInit ==
  /\ query_manifest = NewManifest
  /\ primary_names = {}

InitManifest ==
  ManifestInit /\ ClientIdle /\ CryptoIdle /\ QueryIdle /\ SortIdle /\ PrgIdle /\ SchemaIdle
    /\ EvalIdle /\ PrintIdle /\ KeyIdle /\ SumIdle

NextManifest == GetColumnAliasForNameCall

SpecManifest == InitManifest /\ [][NextManifest]_vars

\* GetColumnAliasForName(n) on the manifest as it is.
AliasNow(n) == GetColumnAliasWithExtras(query_manifest, n, NoExtras).column_alias

\* C29: after any calls of GetColumnAliasForName on a manifest, with extras
\* or without, GetColumnNameForAlias(GetColumnAliasForName(n)) is n for every
\* name n the calls had as column_name, and two such names have two aliases.
C29_AliasesOfPrimaryNamesRoundTrip ==
  /\ \A n \in primary_names : GetColumnNameForAlias(query_manifest, AliasNow(n)) = n
  /\ \A n, o \in primary_names : n # o => AliasNow(n) # AliasNow(o)

\* C29: a has been given an alias with the extra b, and p.c one of its own.
C29_AliasWithExtra ==
  /\ primary_names = {<<"a">>, <<"p", ".", "c">>}
  /\ DOMAIN query_manifest.columns = {<<"a">>, <<"b">>, <<"p", ".", "c">>}
  /\ query_manifest.columns[<<"b">>] = GenerateColumnAlias(<<"a">>)
  /\ GetColumnNameForAlias(query_manifest, GenerateColumnAlias(<<"a">>)) = <<
      "a">>


(***************************************************************************)
(* Part M.  query_lib.py: _CollapseAggregations on SUM and AVG over        *)
(* homomorphic columns, and the value of what it leaves once the values    *)
(* of the queries have come back (_ComputeRows).  The numbers are the      *)
(* floats of Part E: exact, with constants and divisors 1 and 2.           *)
(***************************************************************************)

\* What Part M leaves alone.
SumOnly ==
  UNCHANGED <<clientVars, cryptoVars, queryVars, sortVars, prgVars, schemaVars, evalVars, printVars, keyVars, manifestVars>>

\* a operator b of Python floats; a division by zero is not a number here.
ApplyArithmetic(symbol, a, b) ==
  IF symbol = <<"+">> THEN FloatAdd(a, b)
  ELSE IF symbol = <<"-">> THEN FloatSub(a, b)
  ELSE IF symbol = <<"*">> THEN FloatMul(a, b)
  ELSE IF FloatIsZero(b) THEN FloatNaN
  ELSE FloatDiv(a, b)

\* An item of a stack whose tokens have their values: a number or an
\* operator.
NumberItem(value) == [symbol |-> <<>>, value |-> value]
OperatorItem(symbol) == [symbol |-> symbol, value |-> FloatNaN]

\* Resolve of Evaluate on items[1..n] of numbers and binary operators.
RECURSIVE ResolveNumbers(_, _)
ResolveNumbers(items, n) ==
  IF items[n].symbol = <<>> THEN [value |-> items[n].value, rest |-> n - 1]
  ELSE With(ResolveNumbers(items, n - 1), LAMBDA op2 :
         With(ResolveNumbers(items, op2.rest), LAMBDA op1 :
           [value |-> ApplyArithmetic(items[n].symbol, op1.value, op2.value),
            rest |-> op1.rest]))

\* The sum of a list of numbers
RECURSIVE SumOver(_)
SumOver(values) ==
  IF Len(values) = 0 THEN FloatOfInt(0)
  ELSE FloatAdd(Head(values), SumOver(Tail(values)))

\* The columns of the table of the cars that the arguments use, and the
\* column of the table of the server that holds a column of them.
SumColumns ==
  {<<"I", "n", "v", "o", "i", "c", "e", "_", "P", "r", "i", "c", "e">>,
   <<"H", "o", "l", "d", "b", "a", "c", "k", "_", "P", "e", "r", "c", "e",
       "n", "t", "a", "g", "e">>,
   <<"Y", "e", "a", "r">>}
NameOfColumn(text) ==
  CHOOSE name \in SumColumns :
    text \in {name, HomomorphicIntToken(name).text, HomomorphicFloatToken(name).text}

\* The value the server has for an expression in infix, as ToInfix writes
\* it, on a row: '(left operator right)', a column or a number.  The result
\* has the index after the expression.
RECURSIVE ServerValue(_, _, _)
ServerValue(text, i, row) ==
  IF text[i] = "("
    THEN With(ServerValue(text, i + 1, row), LAMBDA left :
           With(ServerValue(text, left.next + 3, row), LAMBDA right :
             [value |-> ApplyArithmetic(<<text[left.next + 1]>>, left.value, right.value),
              next |-> right.next + 1]))
  ELSE With(CHOOSE j \in i..(Len(text) + 1) :
              /\ j = Len(text) + 1 \/ text[j] \in {" ", ")"}
              /\ \A k \in i..(j - 1) : text[k] \notin {" ", ")"},
            LAMBDA end :
              [value |-> With(SubSeq(text, i, end - 1), LAMBDA word :
                           IF word \in SumColumns THEN row[word]
                           ELSE FloatOf(PlainStr(word))),
               next |-> end])

\* The value that comes back for an AggregationQueryToken over the rows:
\* the decrypted PAILLIER_SUM of a column, the COUNT of a column and the
\* SUM of an expression.
QueriedValue(text, rows) ==
  IF StartsWith(text, PAILLIER_SUM_PREFIX)
    THEN With(NameOfColumn(Split(Split(text, PAILLIER_SUM_PREFIX)[2], <<")",
        ",", " ", "'">>)[1]),
              LAMBDA name : SumOver([r \in 1..Len(rows) |-> rows[r][name]]))
  ELSE IF StartsWith(text, <<"C", "O", "U", "N", "T", "(">>)
      THEN FloatOfInt(Len(rows))
  ELSE SumOver([r \in 1..Len(rows) |->
                  ServerValue(SubSeq(text, 5, Len(text) - 1), 1, rows[r]).value])

\* _ComputeRows for one row of values: temp_stack[k] = queried_values[k_use][i]
\* for the tokens of the queries, and interpreter.Evaluate(temp_stack).
EvaluateResidual(stack, rows) ==
  ResolveNumbers(
    [k \in 1..Len(stack) |->
       IF stack[k].cls = "OperatorToken" THEN OperatorItem(stack[k].text)
       ELSE IF stack[k].cls = "AggregationQueryToken"
         THEN NumberItem(QueriedValue(stack[k].text, rows))
       ELSE NumberItem(FloatOf(stack[k]))],
    Len(stack)).value

\* The value of a postfix expression of columns and ints on a row, and the
\* sum of it over the rows.
ValueOnRow(postfix, row) ==
  ResolveNumbers(
    [k \in 1..Len(postfix) |->
       IF postfix[k].cls = "OperatorToken" THEN OperatorItem(postfix[k].text)
       ELSE IF postfix[k].cls \in FieldTokenClasses
         THEN NumberItem(row[postfix[k].text])
       ELSE NumberItem(FloatOf(postfix[k]))],
    Len(postfix)).value
SumOverRows(postfix, rows) ==
  SumOver([r \in 1..Len(rows) |-> ValueOnRow(postfix, rows[r])])

\* _CollapseAggregations has not been called, Evaluate has not been called.
NotCollapsedYet == [error |-> "pending", found |-> FALSE, stack |-> <<>>]
NoNumberYet == [error |-> "pending", value |-> FloatNaN]

\* _RewritePostfixExpressions of SELECT SUM(argument) or AVG(argument)
CollapseCall ==
  /\ sum_residual.error = "pending"
  /\ sum_residual' =
       With(RewritePostfixExpressions(
              sum_argument.postfix \o <<Aggregation(sum_argument.function_type)>>,
              CarsSchema),
            LAMBDA rewritten_expression :
              [error |-> rewritten_expression.error, found |-> rewritten_expression.error = "none",
               stack |-> IF rewritten_expression.error = "none" THEN rewritten_expression.value ELSE <<>>])
  /\ UNCHANGED <<sum_argument, sum_rows, sum_result>>
  /\ SumOnly

\* _ComputeRows on the values of the queries of the rewritten expression
ComputeCall ==
  /\ sum_residual.error = "none"
  /\ sum_result.error = "pending"
  /\ sum_result' = [error |-> "none", value |-> EvaluateResidual(sum_residual.stack, sum_rows)]
  /\ UNCHANGED <<sum_argument, sum_rows, sum_residual>>
  /\ SumOnly

\* The arguments: a column or 1 or 2, and the sums, differences, products
\* and quotients of two and of three of them; a divisor is no sum.
SumLeaves ==
  {<<Field(name)>> : name \in SumColumns} \cup {<<IntToken(1)>>, <<IntToken(2)>>}
SumSymbols ==
  {<<"+">>,
   <<"-">>,
   <<"*">>,
   <<"/">>}
SumPairs ==
  {a \o b \o <<Operator(s)>> : a \in SumLeaves, b \in SumLeaves, s \in SumSymbols}
SumTriples ==
  {a \o b \o <<Operator(s)>> : a \in SumPairs, b \in SumLeaves, s \in SumSymbols}
  \cup {a \o b \o <<Operator(s)>> : a \in SumLeaves, b \in SumPairs, s \in SumSymbols \ {<<
      "/">>}}
  \cup {a \o b \o <<Operator(<<"/">>)>> :
          a \in SumLeaves, b \in {p \in SumPairs : p[3].text # <<"+">>}}
SumPostfixes == SumLeaves \cup SumPairs \cup SumTriples

\* The rows of the table: Invoice_Price, Holdback_Percentage and Year.
CarRow(invoice_price, holdback_percentage, year) ==
  [name \in SumColumns |->
     IF name = <<"I", "n", "v", "o", "i", "c", "e", "_", "P", "r", "i", "c",
         "e">> THEN invoice_price
     ELSE IF name = <<"H", "o", "l", "d", "b", "a", "c", "k", "_", "P", "e",
         "r", "c", "e", "n", "t", "a", "g", "e">> THEN holdback_percentage
     ELSE year]
SumTables ==
  {<<CarRow(FloatOfInt(3), FloatNum(FALSE, 1, 2), FloatOfInt(3))>>,
   <<CarRow(FloatOfInt(1), FloatNum(FALSE, 3, 2), FloatOfInt(3)),
     CarRow(FloatOfInt(0 - 2), FloatNum(FALSE, 1, 4), FloatOfInt(5))>>}

SumInit ==
  /\ sum_argument \in
       {[function_type |-> f, postfix |-> e] : f \in {<<"S", "U", "M">>, <<
           "A", "V", "G">>}, e \in SumPostfixes}
  /\ sum_rows \in SumTables
  /\ sum_residual = NotCollapsedYet
  /\ sum_result = NoNumberYet

InitSum ==
  SumInit /\ ClientIdle /\ CryptoIdle /\ QueryIdle /\ SortIdle /\ PrgIdle /\ SchemaIdle
    /\ EvalIdle /\ PrintIdle /\ KeyIdle /\ ManifestIdle

NextSum == CollapseCall \/ ComputeCall

SpecSum == InitSum /\ [][NextSum]_vars

\* a and b are the same number (0.0 == -0.0)
SameNumber(a, b) ==
  /\ a.kind = "num" /\ b.kind = "num"
  /\ a.n * b.d = b.n * a.d
  /\ a.n = 0 \/ a.neg = b.neg

\* The argument has a homomorphic column of the schema.
OverHomomorphic(postfix) ==
  \E k \in 1..Len(postfix) :
    postfix[k].text \in {<<"I", "n", "v", "o", "i", "c", "e", "_", "P", "r",
        "i", "c", "e">>, <<"H", "o", "l", "d", "b", "a", "c", "k", "_", "P",
        "e", "r", "c", "e", "n", "t", "a", "g", "e">>}

\* The sum of the argument over the rows, and for AVG the sum by the count.
ExpectedValue ==
  With(SumOverRows(sum_argument.postfix, sum_rows), LAMBDA sum :
    IF sum_argument.function_type = <<"A", "V", "G">>
      THEN FloatDiv(sum, FloatOfInt(Len(sum_rows)))
      ELSE sum)

\* C21: for an accepted argument of SUM with homomorphic columns, what the
\* collapse of the aggregation leaves evaluates to the sum of the argument
\* over the rows, once PAILLIER_SUM(x) is the sum of x over the rows, SUM(t)
\* the sum of t and COUNT(field) the number of rows; for AVG to that sum
\* divided by the count.
C21_ResidualIsSumOverRows ==
  (/\ sum_result.error = "none"
   /\ OverHomomorphic(sum_argument.postfix)
   /\ ExpectedValue.kind = "num")
  => SameNumber(sum_result.value, ExpectedValue)

\* C21: SUM(Invoice_Price * 2 - Year) over two rows has been collapsed to
\* queries of PAILLIER_SUM, SUM and COUNT and evaluated to -10.
C21_LinearSumEvaluated ==
  /\ sum_argument.function_type = <<"S", "U", "M">>
  /\ sum_argument.postfix =
       <<Field(<<"I", "n", "v", "o", "i", "c", "e", "_", "P", "r", "i", "c",
           "e">>), IntToken(2), Operator(<<"*">>), Field(<<"Y", "e", "a", "r">>),
           Operator(<<"-">>)>>
  /\ Len(sum_rows) = 2
  /\ sum_result.error = "none"
  /\ \E k \in 1..Len(sum_residual.stack) :
       StartsWith(sum_residual.stack[k].text, PAILLIER_SUM_PREFIX)
  /\ \E k \in 1..Len(sum_residual.stack) :
       StartsWith(sum_residual.stack[k].text, <<"S", "U", "M", "(">>)
  /\ sum_result.value = FloatOfInt(0 - 10)

====
